---------------------------- MODULE Spec2Model ----------------------------
(***************************************************************************)
(* A model of the DownPour glTF tooling scripts:                           *)
(*   src/src/tools/GLTFTools/python/converter.py  (glTF -> JSON converter) *)
(*   src/src/tools/inspect_car.py                 (car model inspector)    *)
(*   src/src/tools/main.py                        (viewer wrapper)         *)
(*   src/tools/archive/calculate_cockpit.py       (cockpit calculator)     *)
(*   src/tools/skybox_colors.py                   (skybox colour generator)*)
(*                                                                         *)
(* Python values are encoded as follows.  An attribute that may be None is *)
(* an option: None is <<>> and a value v is <<v>>, so that "" , 0 and []   *)
(* stay distinct from None.  A dict is a function from its keys (strings)  *)
(* to option-wrapped values (<<>> is JSON null); a list is a sequence.     *)
(* Floats that the scripts only copy are integers; the camera bounds are   *)
(* fixed-point integers in units of 10^-6 m.                               *)
(***************************************************************************)
EXTENDS Integers, Sequences, FiniteSets, TLC

VARIABLES
    script,       \* which script the process runs
    pc,           \* position in the script
    stdout,       \* the lines printed so far (tagged records)
    exit_code,    \* None while running, else <<code>>
    trace,        \* calls made on the outside world, in order
    argv,         \* sys.argv
    input_file,   \* converter: sys.argv[1]
    output_file,  \* converter: the output path
    gltf,         \* GLTFConverter.gltf: None or <<document>>
    json_data,    \* the report convert_to_json returned: None or <<report>>
    include_accessors, \* the argument of the last convert_to_json call
    exc,          \* the exception in flight: None or <<class name>>
    disk,         \* the file system: [files: path -> content, dirs: set of directories]
    json_file,    \* inspector: the file chosen, None or <<path>>
    data,         \* inspector: the parsed JSON, None or <<object>>
    args,         \* viewer: the argparse namespace
    gltf_path,    \* viewer: the resolved model path, None or <<path>>
    scene,        \* viewer: what trimesh.load returned, None or <<class name>>
    values,       \* prompt scripts: the numbers read so far, in prompt order
    position      \* calculator: the position calculated, None or <<x, y, z>>

procVars == <<script, pc, stdout, exit_code, trace, argv>>
convVars == <<input_file, output_file, gltf, json_data, include_accessors, exc, disk>>
inspVars == <<json_file, data>>
viewVars == <<args, gltf_path, scene>>
promptVars == <<values, position>>
vars == <<procVars, convVars, inspVars, viewVars, promptVars>>

-----------------------------------------------------------------------------
(* Python values *)

None == <<>>
Some(v) == <<v>>
Empty == <<>>                       \* the empty dict / the empty list
Put(k, c, v) == IF c THEN k :> v ELSE Empty

\* bool(x) for x an optional str, number, list or object
TruthyStr(o) == o # None /\ o[1] # ""
TruthyNum(o) == o # None /\ o[1] # 0
TruthyList(o) == o # None /\ Len(o[1]) > 0
TruthyObj(o) == o # None

\* list[i] with Python's negative indices; raises IndexError out of range
InRange(list, i) == -Len(list) <= i /\ i < Len(list)
PyIndex(list, i) == IF i >= 0 THEN list[i + 1] ELSE list[Len(list) + i + 1]

RECURSIVE SeqUpTo(_, _)
SeqUpTo(S, n) ==
    IF n = 0 THEN {<<>>}
    ELSE LET shorter == SeqUpTo(S, n - 1)
         IN  shorter \cup {Append(s, x) : s \in {t \in shorter : Len(t) = n - 1}, x \in S}

\* every record obtained from base by setting one field to one of its values
OneField(base, vals) ==
    UNION {{[base EXCEPT ![f] = v] : v \in vals[f]} : f \in DOMAIN vals}

-----------------------------------------------------------------------------
(* converter.py: the extract_* methods.  g is GLTFConverter.gltf. *)

\* GLTFConverter.extract_metadata
extract_metadata(g) ==
    IF g = None \/ g[1].asset = None THEN Empty
    ELSE LET asset == g[1].asset[1]
         IN  ("version" :> asset.version)
             @@ Put("generator", TruthyStr(asset.generator), asset.generator)
             @@ Put("copyright", TruthyStr(asset.copyright), asset.copyright)
             @@ Put("minVersion", TruthyStr(asset.minVersion), asset.minVersion)

scene_data(idx, sc) ==
    ("index" :> Some(idx))
    @@ ("nodes" :> IF TruthyList(sc.nodes) THEN sc.nodes ELSE Some(<<>>))
    @@ Put("name", TruthyStr(sc.name), sc.name)

\* GLTFConverter.extract_scenes
extract_scenes(g) ==
    IF g = None \/ Len(g[1].scenes) = 0 THEN <<>>
    ELSE [i \in 1..Len(g[1].scenes) |-> scene_data(i - 1, g[1].scenes[i])]

\* node_data numbering the nodes from 1
node_data_one_based(idx, node) ==
    ("index" :> Some(idx + 1))
    @@ Put("name", TruthyStr(node.name), node.name)
    @@ Put("mesh", node.mesh # None, node.mesh)
    @@ Put("camera", node.camera # None, node.camera)
    @@ Put("skin", node.skin # None, node.skin)
    @@ Put("children", TruthyList(node.children), node.children)
    @@ Put("matrix", TruthyList(node.matrix), node.matrix)
    @@ Put("translation", TruthyList(node.translation), node.translation)
    @@ Put("rotation", TruthyList(node.rotation), node.rotation)
    @@ Put("scale", TruthyList(node.scale), node.scale)

node_data(idx, node) ==
    ("index" :> Some(idx))
    @@ Put("name", TruthyStr(node.name), node.name)
    @@ Put("mesh", node.mesh # None, node.mesh)
    @@ Put("camera", node.camera # None, node.camera)
    @@ Put("skin", node.skin # None, node.skin)
    @@ Put("children", TruthyList(node.children), node.children)
    @@ Put("matrix", TruthyList(node.matrix), node.matrix)
    @@ Put("translation", TruthyList(node.translation), node.translation)
    @@ Put("rotation", TruthyList(node.rotation), node.rotation)
    @@ Put("scale", TruthyList(node.scale), node.scale)

\* GLTFConverter.extract_nodes
extract_nodes(g) ==
    IF g = None \/ Len(g[1].nodes) = 0 THEN <<>>
    ELSE [i \in 1..Len(g[1].nodes) |-> node_data(i - 1, g[1].nodes[i])]

\* the four vertex attributes extract_meshes looks at
ATTRIBUTES == {"POSITION", "NORMAL", "TEXCOORD_0", "COLOR_0"}

\* the facts taken from the first accessor whatever the index
accessor_info_of_first(accessors, i) ==
    LET accessor == PyIndex(accessors, 0)
    IN  ("accessor" :> Some(i))
        @@ ("count" :> accessor.count)
        @@ ("type" :> accessor.type)
        @@ ("componentType" :> accessor.componentType)

\* {"accessor": i, "count": ..., "type": ..., "componentType": ...}
accessor_info(accessors, i) ==
    LET accessor == PyIndex(accessors, i)
    IN  ("accessor" :> Some(i))
        @@ ("count" :> accessor.count)
        @@ ("type" :> accessor.type)
        @@ ("componentType" :> accessor.componentType)

\* the accessor indices a primitive makes extract_meshes look up
prim_lookups(prim) ==
    {prim.attributes[a][1] : a \in {b \in ATTRIBUTES : prim.attributes[b] # None}}
    \cup (IF prim.indices # None THEN {prim.indices[1]} ELSE {})

prim_data(accessors, prim_idx, prim) ==
    ("index" :> Some(prim_idx))
    @@ ("mode" :> IF prim.mode # None THEN prim.mode ELSE Some(4))
    @@ ("attributes" :>
          Some([a \in {b \in ATTRIBUTES : prim.attributes[b] # None} |->
                   Some(accessor_info(accessors, prim.attributes[a][1]))]))
    @@ Put("material", prim.material # None, prim.material)
    @@ Put("indices", prim.indices # None,
           Some(accessor_info(accessors, IF prim.indices # None THEN prim.indices[1] ELSE 0)))

mesh_data(accessors, idx, mesh) ==
    ("index" :> Some(idx))
    @@ ("primitives" :>
          Some([j \in 1..Len(mesh.primitives) |->
                   prim_data(accessors, j - 1, mesh.primitives[j])]))
    @@ Put("name", TruthyStr(mesh.name), mesh.name)
    @@ Put("weights", TruthyList(mesh.weights), mesh.weights)

\* extract_meshes with a check that a primitive's material exists
extract_meshes_raises_on_material(g) ==
    /\ g # None
    /\ \E i \in 1..Len(g[1].meshes) : \E j \in 1..Len(g[1].meshes[i].primitives) :
          \/ \E a \in prim_lookups(g[1].meshes[i].primitives[j]) :
                ~InRange(g[1].accessors, a)
          \/ /\ g[1].meshes[i].primitives[j].material # None
             /\ g[1].meshes[i].primitives[j].material[1] >= Len(g[1].materials)

\* extract_meshes raises IndexError at self.gltf.accessors[...]
extract_meshes_raises(g) ==
    /\ g # None
    /\ \E i \in 1..Len(g[1].meshes) : \E j \in 1..Len(g[1].meshes[i].primitives) :
          \E a \in prim_lookups(g[1].meshes[i].primitives[j]) :
              ~InRange(g[1].accessors, a)

\* GLTFConverter.extract_meshes (its value when it does not raise)
extract_meshes(g) ==
    IF g = None \/ Len(g[1].meshes) = 0 THEN <<>>
    ELSE [i \in 1..Len(g[1].meshes) |-> mesh_data(g[1].accessors, i - 1, g[1].meshes[i])]

\* texture_ref without the default: an absent texCoord is emitted as it is
texture_ref_no_default(t) ==
    ("index" :> t.index) @@ ("texCoord" :> t.texCoord)

\* {"index": t.index, "texCoord": t.texCoord if t.texCoord is not None else 0}
texture_ref(t) ==
    ("index" :> t.index)
    @@ ("texCoord" :> IF t.texCoord # None THEN t.texCoord ELSE Some(0))

normal_texture_ref(t) ==
    texture_ref(t) @@ ("scale" :> IF t.scale # None THEN t.scale ELSE Some(1))

pbr_data(pbr) ==
    Put("baseColorFactor", TruthyList(pbr.baseColorFactor), pbr.baseColorFactor)
    @@ Put("metallicFactor", pbr.metallicFactor # None, pbr.metallicFactor)
    @@ Put("roughnessFactor", pbr.roughnessFactor # None, pbr.roughnessFactor)
    @@ Put("baseColorTexture", TruthyObj(pbr.baseColorTexture),
           Some(texture_ref(IF pbr.baseColorTexture # None
                            THEN pbr.baseColorTexture[1] ELSE Empty)))
    @@ Put("metallicRoughnessTexture", TruthyObj(pbr.metallicRoughnessTexture),
           Some(texture_ref(IF pbr.metallicRoughnessTexture # None
                            THEN pbr.metallicRoughnessTexture[1] ELSE Empty)))

mat_data(idx, mat) ==
    ("index" :> Some(idx))
    @@ Put("name", TruthyStr(mat.name), mat.name)
    @@ Put("pbrMetallicRoughness", TruthyObj(mat.pbrMetallicRoughness),
           Some(pbr_data(IF mat.pbrMetallicRoughness # None
                         THEN mat.pbrMetallicRoughness[1] ELSE Empty)))
    @@ Put("normalTexture", TruthyObj(mat.normalTexture),
           Some(normal_texture_ref(IF mat.normalTexture # None
                                   THEN mat.normalTexture[1] ELSE Empty)))
    @@ Put("emissiveFactor", TruthyList(mat.emissiveFactor), mat.emissiveFactor)
    @@ Put("emissiveTexture", TruthyObj(mat.emissiveTexture),
           Some(texture_ref(IF mat.emissiveTexture # None
                            THEN mat.emissiveTexture[1] ELSE Empty)))
    @@ Put("alphaMode", TruthyStr(mat.alphaMode), mat.alphaMode)
    @@ Put("alphaCutoff", mat.alphaCutoff # None, mat.alphaCutoff)
    @@ Put("doubleSided", mat.doubleSided # None, mat.doubleSided)

\* GLTFConverter.extract_materials
extract_materials(g) ==
    IF g = None \/ Len(g[1].materials) = 0 THEN <<>>
    ELSE [i \in 1..Len(g[1].materials) |-> mat_data(i - 1, g[1].materials[i])]

tex_data(idx, tex) ==
    ("index" :> Some(idx))
    @@ Put("name", TruthyStr(tex.name), tex.name)
    @@ Put("source", tex.source # None, tex.source)
    @@ Put("sampler", tex.sampler # None, tex.sampler)

\* GLTFConverter.extract_textures
extract_textures(g) ==
    IF g = None \/ Len(g[1].textures) = 0 THEN <<>>
    ELSE [i \in 1..Len(g[1].textures) |-> tex_data(i - 1, g[1].textures[i])]

img_data(idx, img) ==
    ("index" :> Some(idx))
    @@ Put("name", TruthyStr(img.name), img.name)
    @@ Put("uri", TruthyStr(img.uri), img.uri)
    @@ Put("mimeType", TruthyStr(img.mimeType), img.mimeType)
    @@ Put("bufferView", img.bufferView # None, img.bufferView)

\* GLTFConverter.extract_images
extract_images(g) ==
    IF g = None \/ Len(g[1].images) = 0 THEN <<>>
    ELSE [i \in 1..Len(g[1].images) |-> img_data(i - 1, g[1].images[i])]

buf_data(idx, buf) ==
    ("index" :> Some(idx))
    @@ ("byteLength" :> buf.byteLength)
    @@ Put("uri", TruthyStr(buf.uri), buf.uri)
    @@ Put("name", TruthyStr(buf.name), buf.name)

\* GLTFConverter.extract_buffers
extract_buffers(g) ==
    IF g = None \/ Len(g[1].buffers) = 0 THEN <<>>
    ELSE [i \in 1..Len(g[1].buffers) |-> buf_data(i - 1, g[1].buffers[i])]

\* acc_data with byteOffset tested by "is not None" (a 0 offset is emitted)
acc_data_offset_not_none(idx, acc) ==
    ("index" :> Some(idx))
    @@ ("componentType" :> acc.componentType)
    @@ ("count" :> acc.count)
    @@ ("type" :> acc.type)
    @@ Put("bufferView", acc.bufferView # None, acc.bufferView)
    @@ Put("byteOffset", acc.byteOffset # None, acc.byteOffset)
    @@ Put("normalized", acc.normalized # None, acc.normalized)
    @@ Put("min", TruthyList(acc.min), acc.min)
    @@ Put("max", TruthyList(acc.max), acc.max)
    @@ Put("name", TruthyStr(acc.name), acc.name)

acc_data(idx, acc) ==
    ("index" :> Some(idx))
    @@ ("componentType" :> acc.componentType)
    @@ ("count" :> acc.count)
    @@ ("type" :> acc.type)
    @@ Put("bufferView", acc.bufferView # None, acc.bufferView)
    @@ Put("byteOffset", TruthyNum(acc.byteOffset), acc.byteOffset)
    @@ Put("normalized", acc.normalized # None, acc.normalized)
    @@ Put("min", TruthyList(acc.min), acc.min)
    @@ Put("max", TruthyList(acc.max), acc.max)
    @@ Put("name", TruthyStr(acc.name), acc.name)

\* GLTFConverter.extract_accessors
extract_accessors(g) ==
    IF g = None \/ Len(g[1].accessors) = 0 THEN <<>>
    ELSE [i \in 1..Len(g[1].accessors) |-> acc_data(i - 1, g[1].accessors[i])]

\* convert_to_json raises: extract_meshes does, or self.gltf is None at
\* self.gltf.extensionsUsed (AttributeError)
convert_raises(g) == g = None \/ extract_meshes_raises(g)

\* GLTFConverter.convert_to_json (its value when it does not raise)
convert_to_json(g, with_accessors) ==
    ("asset" :> extract_metadata(g))
    @@ ("scenes" :> extract_scenes(g))
    @@ ("nodes" :> extract_nodes(g))
    @@ ("meshes" :> extract_meshes(g))
    @@ ("materials" :> extract_materials(g))
    @@ ("textures" :> extract_textures(g))
    @@ ("images" :> extract_images(g))
    @@ ("buffers" :> extract_buffers(g))
    @@ Put("accessors", with_accessors, extract_accessors(g))
    @@ Put("extensionsUsed", Len(g[1].extensionsUsed) > 0, g[1].extensionsUsed)
    @@ Put("extensionsRequired", Len(g[1].extensionsRequired) > 0, g[1].extensionsRequired)

-----------------------------------------------------------------------------
(* The documents a load can return.  Each family varies one collection:    *)
(* its first element ranges over every value of every field (one field at  *)
(* a time, plus an all-populated and an all-falsy element), the elements    *)
(* after it over a few core values.                                         *)

MaxItems == 2        \* longest collection
MaxPrims == 2        \* most primitives of a mesh

ListsUpTo(vals, core, n) ==
    {<<>>} \cup {<<v>> \o rest : v \in vals, rest \in SeqUpTo(core, n - 1)}
Lists(vals, core) == ListsUpTo(vals, core, MaxItems)

AssetNone == [version |-> None, generator |-> None, copyright |-> None, minVersion |-> None]
AssetVals ==
    {AssetNone, [AssetNone EXCEPT !.version = Some("2.0")],
     [version |-> Some("2.0"), generator |-> Some("gen"), copyright |-> Some("c"),
      minVersion |-> Some("2.0")]}
    \cup OneField([AssetNone EXCEPT !.version = Some("2.0")],
                  [generator |-> {Some(""), Some("gen")}, copyright |-> {Some(""), Some("c")},
                   minVersion |-> {Some(""), Some("2.0")}])

SceneNone == [nodes |-> None, name |-> None]
SceneVals ==
    {SceneNone, [nodes |-> Some(<<0, 1>>), name |-> Some("Scene")]}
    \cup OneField(SceneNone, [nodes |-> {Some(<<>>), Some(<<0>>), Some(<<7>>)},
                              name |-> {Some(""), Some("Scene")}])
SceneCore == {SceneNone, [nodes |-> Some(<<0>>), name |-> Some("Scene")]}

NodeNone ==
    [name |-> None, mesh |-> None, camera |-> None, skin |-> None, children |-> None,
     matrix |-> None, translation |-> None, rotation |-> None, scale |-> None,
     weights |-> None]
NodeFull ==
    [name |-> Some("Body"), mesh |-> Some(1), camera |-> Some(0), skin |-> Some(0),
     children |-> Some(<<1>>), matrix |-> Some(<<1, 0, 0, 1>>),
     translation |-> Some(<<1, 2, 3>>), rotation |-> Some(<<0, 0, 0, 1>>),
     scale |-> Some(<<2, 2, 2>>), weights |-> Some(<<1>>)]
NodeFalsy ==
    [name |-> Some(""), mesh |-> Some(0), camera |-> Some(0), skin |-> Some(0),
     children |-> Some(<<>>), matrix |-> Some(<<>>), translation |-> Some(<<>>),
     rotation |-> Some(<<>>), scale |-> Some(<<>>), weights |-> Some(<<>>)]
NodeVals ==
    {NodeNone, NodeFull, NodeFalsy}
    \cup OneField(NodeNone,
           [name |-> {Some(""), Some("Body")}, mesh |-> {Some(0), Some(9)},
            camera |-> {Some(0), Some(9)}, skin |-> {Some(0), Some(9)},
            children |-> {Some(<<>>), Some(<<1>>), Some(<<9>>)},
            matrix |-> {Some(<<>>), Some(<<1, 0, 0, 1>>)},
            translation |-> {Some(<<>>), Some(<<0, 0, 0>>)},
            rotation |-> {Some(<<>>), Some(<<0, 0, 0, 1>>)},
            scale |-> {Some(<<>>), Some(<<1, 1, 1>>)},
            weights |-> {Some(<<1>>)}])
NodeCore == {NodeNone, NodeFull}

TexRefNone == [index |-> None, texCoord |-> None]
TexRefVals ==
    {TexRefNone, [index |-> Some(0), texCoord |-> None],
     [index |-> Some(0), texCoord |-> Some(0)], [index |-> Some(9), texCoord |-> Some(1)]}
NormalRefVals ==
    {[index |-> None, texCoord |-> None, scale |-> None],
     [index |-> Some(0), texCoord |-> None, scale |-> None],
     [index |-> Some(0), texCoord |-> Some(1), scale |-> Some(0)],
     [index |-> Some(0), texCoord |-> Some(0), scale |-> Some(2)]}
PbrNone ==
    [baseColorFactor |-> None, metallicFactor |-> None, roughnessFactor |-> None,
     baseColorTexture |-> None, metallicRoughnessTexture |-> None]
PbrVals ==
    {PbrNone,
     [baseColorFactor |-> Some(<<1, 1, 1, 1>>), metallicFactor |-> Some(1),
      roughnessFactor |-> Some(1), baseColorTexture |-> Some([index |-> Some(0), texCoord |-> None]),
      metallicRoughnessTexture |-> Some([index |-> Some(1), texCoord |-> Some(1)])]}
    \cup OneField(PbrNone,
           [baseColorFactor |-> {Some(<<>>), Some(<<1, 1, 1, 0>>)},
            metallicFactor |-> {Some(0), Some(1)}, roughnessFactor |-> {Some(0), Some(1)},
            baseColorTexture |-> {Some(t) : t \in TexRefVals},
            metallicRoughnessTexture |-> {Some(t) : t \in TexRefVals}])
MaterialNone ==
    [name |-> None, pbrMetallicRoughness |-> None, normalTexture |-> None,
     emissiveFactor |-> None, emissiveTexture |-> None, alphaMode |-> None,
     alphaCutoff |-> None, doubleSided |-> None, occlusionTexture |-> None]
MaterialFull ==
    [name |-> Some("Glass"),
     pbrMetallicRoughness |-> Some([PbrNone EXCEPT !.metallicFactor = Some(1)]),
     normalTexture |-> Some([index |-> Some(0), texCoord |-> Some(1), scale |-> Some(2)]),
     emissiveFactor |-> Some(<<1, 1, 1>>),
     emissiveTexture |-> Some([index |-> Some(1), texCoord |-> Some(0)]),
     alphaMode |-> Some("BLEND"), alphaCutoff |-> Some(1), doubleSided |-> Some(TRUE),
     occlusionTexture |-> Some([index |-> Some(0), texCoord |-> None])]
MaterialVals ==
    {MaterialNone, MaterialFull}
    \cup OneField(MaterialNone,
           [name |-> {Some(""), Some("Glass")},
            pbrMetallicRoughness |-> {Some(p) : p \in PbrVals},
            normalTexture |-> {Some(t) : t \in NormalRefVals},
            emissiveFactor |-> {Some(<<>>), Some(<<0, 0, 0>>)},
            emissiveTexture |-> {Some(t) : t \in TexRefVals},
            alphaMode |-> {Some(""), Some("BLEND")},
            alphaCutoff |-> {Some(0), Some(1)},
            doubleSided |-> {Some(FALSE), Some(TRUE)},
            occlusionTexture |-> {Some([index |-> Some(0), texCoord |-> None])}])
MaterialCore == {MaterialNone, MaterialFull}

AccessorNone ==
    [componentType |-> None, count |-> None, type |-> None, bufferView |-> None,
     byteOffset |-> None, normalized |-> None, min |-> None, max |-> None,
     name |-> None, sparse |-> None]
\* a valid accessor: the three required properties are there
Accessor(n, t) ==
    [AccessorNone EXCEPT !.componentType = Some(5126), !.count = Some(n), !.type = Some(t)]
AccessorFull ==
    [componentType |-> Some(5123), count |-> Some(36), type |-> Some("SCALAR"),
     bufferView |-> Some(1), byteOffset |-> Some(8), normalized |-> Some(TRUE),
     min |-> Some(<<0>>), max |-> Some(<<7>>), name |-> Some("idx"), sparse |-> Some(1)]
AccessorVals ==
    {AccessorNone, AccessorFull, Accessor(3, "VEC3")}
    \cup OneField(Accessor(3, "VEC3"),
           [bufferView |-> {Some(0), Some(9)}, byteOffset |-> {Some(0), Some(8)},
            normalized |-> {Some(FALSE), Some(TRUE)}, min |-> {Some(<<>>), Some(<<0, 0, 0>>)},
            max |-> {Some(<<>>), Some(<<1, 1, 1>>)}, name |-> {Some(""), Some("pos")},
            sparse |-> {Some(1)}])
    \cup OneField(AccessorNone,
           [componentType |-> {Some(5126)}, count |-> {Some(0), Some(3)},
            type |-> {Some("VEC3")}])
AccessorCore == {Accessor(24, "VEC2"), AccessorFull}

AttributesNone ==
    [POSITION |-> None, NORMAL |-> None, TEXCOORD_0 |-> None, COLOR_0 |-> None,
     TANGENT |-> None]
PrimNone == [mode |-> None, material |-> None, attributes |-> AttributesNone, indices |-> None]
PrimFull ==
    [mode |-> Some(4), material |-> Some(0),
     attributes |-> [POSITION |-> Some(0), NORMAL |-> Some(1), TEXCOORD_0 |-> Some(1),
                     COLOR_0 |-> Some(0), TANGENT |-> Some(1)],
     indices |-> Some(1)]
PrimVals ==
    {PrimNone, PrimFull}
    \cup OneField(PrimNone, [mode |-> {Some(0), Some(1), Some(4)},
                             material |-> {Some(0), Some(9)},
                             indices |-> {Some(0), Some(1), Some(2), Some(-1)}])
    \cup {[PrimNone EXCEPT !.attributes = a] :
             a \in OneField(AttributesNone,
                     [POSITION |-> {Some(0), Some(1), Some(2), Some(-1)},
                      NORMAL |-> {Some(0), Some(2)}, TEXCOORD_0 |-> {Some(1)},
                      COLOR_0 |-> {Some(1), Some(-3)}, TANGENT |-> {Some(0)}])}
PrimCore == {PrimNone, PrimFull}

MeshNone == [name |-> None, weights |-> None, primitives |-> <<>>]
MeshVals ==
    {[MeshNone EXCEPT !.primitives = ps] : ps \in ListsUpTo(PrimVals, PrimCore, MaxPrims)}
    \cup OneField(MeshNone, [name |-> {Some(""), Some("Car")},
                             weights |-> {Some(<<>>), Some(<<1, 0>>)}])
MeshCore ==
    {MeshNone, [name |-> Some("Car"), weights |-> Some(<<1>>), primitives |-> <<PrimFull>>]}
\* the accessors a mesh document comes with
MeshAccessors ==
    {<<>>, <<Accessor(3, "VEC3")>>, <<Accessor(3, "VEC3"), AccessorFull>>}

TextureNone == [name |-> None, source |-> None, sampler |-> None]
TextureVals ==
    {TextureNone, [name |-> Some("t"), source |-> Some(0), sampler |-> Some(0)]}
    \cup OneField(TextureNone, [name |-> {Some(""), Some("t")}, source |-> {Some(0), Some(9)},
                                sampler |-> {Some(0), Some(9)}])
TextureCore == {TextureNone, [name |-> Some("t"), source |-> Some(0), sampler |-> Some(0)]}

ImageNone == [name |-> None, uri |-> None, mimeType |-> None, bufferView |-> None]
ImageVals ==
    {ImageNone,
     [name |-> Some("i"), uri |-> Some("a.png"), mimeType |-> Some("image/png"),
      bufferView |-> Some(0)]}
    \cup OneField(ImageNone, [name |-> {Some(""), Some("i")}, uri |-> {Some(""), Some("a.png")},
                              mimeType |-> {Some(""), Some("image/png")},
                              bufferView |-> {Some(0), Some(2)}])
ImageCore == {ImageNone, [ImageNone EXCEPT !.uri = Some("a.png")]}

BufferNone == [byteLength |-> None, uri |-> None, name |-> None]
BufferVals ==
    {BufferNone, [byteLength |-> Some(64), uri |-> Some("a.bin"), name |-> Some("b")]}
    \cup OneField([BufferNone EXCEPT !.byteLength = Some(64)],
           [byteLength |-> {Some(0)}, uri |-> {Some(""), Some("a.bin")},
            name |-> {Some(""), Some("b")}])
BufferCore == {[BufferNone EXCEPT !.byteLength = Some(64)]}

ExtensionLists == {<<>>, <<"KHR_materials_transmission">>}

\* a document with a valid asset and nothing else
DocBase ==
    [asset |-> Some([AssetNone EXCEPT !.version = Some("2.0")]), scenes |-> <<>>,
     nodes |-> <<>>, meshes |-> <<>>, materials |-> <<>>, textures |-> <<>>,
     images |-> <<>>, buffers |-> <<>>, accessors |-> <<>>, extensionsUsed |-> <<>>,
     extensionsRequired |-> <<>>]
\* a document with one populated element in every collection
DocFull ==
    [asset |-> Some([AssetNone EXCEPT !.version = Some("2.0")]),
     scenes |-> <<[nodes |-> Some(<<0>>), name |-> Some("Scene")]>>,
     nodes |-> <<NodeFull>>,
     meshes |-> <<[name |-> Some("Car"), weights |-> None, primitives |-> <<PrimFull>>]>>,
     materials |-> <<MaterialFull>>,
     textures |-> <<[name |-> Some("t"), source |-> Some(0), sampler |-> Some(0)]>>,
     images |-> <<[ImageNone EXCEPT !.uri = Some("a.png")]>>,
     buffers |-> <<[BufferNone EXCEPT !.byteLength = Some(64)]>>,
     accessors |-> <<Accessor(3, "VEC3"), AccessorFull>>,
     extensionsUsed |-> <<"KHR_materials_transmission">>,
     extensionsRequired |-> <<"KHR_materials_transmission">>]

Documents ==
    {DocBase, DocFull}
    \cup {[DocBase EXCEPT !.asset = a, !.extensionsUsed = u, !.extensionsRequired = r] :
             a \in {None} \cup {Some(v) : v \in AssetVals},
             u \in ExtensionLists, r \in ExtensionLists}
    \cup {[DocBase EXCEPT !.scenes = l] : l \in Lists(SceneVals, SceneCore)}
    \cup {[DocBase EXCEPT !.nodes = l] : l \in Lists(NodeVals, NodeCore)}
    \cup {[DocBase EXCEPT !.materials = l] : l \in Lists(MaterialVals, MaterialCore)}
    \cup {[DocBase EXCEPT !.accessors = l] : l \in Lists(AccessorVals, AccessorCore)}
    \cup {[DocBase EXCEPT !.meshes = l, !.accessors = a] :
             l \in Lists(MeshVals, MeshCore), a \in MeshAccessors}
    \cup {[DocBase EXCEPT !.textures = l] : l \in Lists(TextureVals, TextureCore)}
    \cup {[DocBase EXCEPT !.images = l] : l \in Lists(ImageVals, ImageCore)}
    \cup {[DocBase EXCEPT !.buffers = l] : l \in Lists(BufferVals, BufferCore)}

-----------------------------------------------------------------------------
(* The process: printing, exiting, paths and the file system *)

Msg(tag, arg) == [msg |-> tag, arg |-> arg]
Say(lines) == stdout' = stdout \o lines
Printed(tag) == \E i \in 1..Len(stdout) : stdout[i].msg = tag
PrintedWith(tag, arg) == \E i \in 1..Len(stdout) : stdout[i].msg = tag /\ stdout[i].arg = arg
Call(op, arg) == trace' = Append(trace, [op |-> op, arg |-> arg])
Called(op) == \E i \in 1..Len(trace) : trace[i].op = op
Exit(code) == exit_code' = Some(code) /\ pc' = "done"
Running == exit_code = None

\* pathlib.Path: a directory, a stem and a suffix
Path(dir, stem, suffix) == [dir |-> dir, stem |-> stem, suffix |-> suffix]
with_suffix(path, suffix) == [path EXCEPT !.suffix = suffix]
\* str.lower() on the suffixes in use
lower(suffix) == IF suffix = ".GLB" THEN ".glb" ELSE suffix

ModelGlb == Path(".", "model", ".GLB")
CarGltf == Path(".", "car", ".gltf")
MissingGlb == Path(".", "missing", ".glb")
ReportJson == Path("out", "report", ".json")
InputPaths == {ModelGlb, CarGltf, MissingGlb}
Paths == InputPaths \cup {ReportJson} \cup {with_suffix(q, ".json") : q \in InputPaths}

Absent == [kind |-> "absent"]
GltfFile == [kind |-> "gltf"]
OldFile == [kind |-> "old"]
Truncated == [kind |-> "truncated"]
JsonFile(report) == [kind |-> "json", data |-> report]
exists(path) == disk.files[path].kind # "absent"

\* the file systems a run can start on: the two models are there or not, and
\* the output paths hold an older file or not
Disks ==
    {[files |-> [q \in Paths |->
                    IF q \in {ModelGlb, CarGltf} THEN (IF present THEN GltfFile ELSE Absent)
                    ELSE IF q \in InputPaths THEN Absent
                    ELSE (IF old THEN OldFile ELSE Absent)],
      dirs |-> IF old THEN {".", "out"} ELSE {"."}] :
        present \in BOOLEAN, old \in BOOLEAN}

-----------------------------------------------------------------------------
(* converter.py: the command line (main, convert_file, load, save_json) *)

Converter == "converter.py"
ConverterArgv ==
    {<<Converter>>, <<Converter, ModelGlb>>, <<Converter, CarGltf>>, <<Converter, MissingGlb>>,
     <<Converter, ModelGlb, ReportJson>>}

\* the converter's variables while another script runs
ConvIdle ==
    /\ input_file = None /\ output_file = None /\ gltf = None /\ json_data = None
    /\ include_accessors = TRUE /\ exc = None

\* the variables of the other scripts, which a run of this one leaves alone
InspIdle == json_file = None /\ data = None
ViewIdle == args = None /\ gltf_path = None /\ scene = None
PromptIdle == values = <<>> /\ position = None

InitConverter ==
    /\ script = Converter /\ pc = "main" /\ stdout = <<>> /\ exit_code = None
    /\ trace = <<>> /\ argv \in ConverterArgv
    /\ InspIdle /\ ViewIdle /\ PromptIdle
    /\ input_file = None /\ output_file = None /\ gltf = None /\ json_data = None
    /\ include_accessors = TRUE /\ exc = None
    /\ disk \in Disks

\* main, lines 438-449: no argument, print the usage and exit 1
MainUsage ==
    /\ script = Converter /\ pc = "main" /\ Len(argv) < 2
    /\ Say(<<Msg("usage", None)>>)
    /\ Exit(1)
    /\ UNCHANGED <<inspVars, viewVars, promptVars>>
    /\ UNCHANGED <<script, trace, argv, convVars>>

\* main, lines 451-458, and GLTFConverter.__init__
MainArgs ==
    /\ script = Converter /\ pc = "main" /\ Len(argv) >= 2
    /\ input_file' = Some(argv[2])
    /\ output_file' = Some(IF Len(argv) >= 3 THEN argv[3] ELSE with_suffix(argv[2], ".json"))
    /\ gltf' = None
    /\ pc' = "load"
    /\ UNCHANGED <<inspVars, viewVars, promptVars>>
    /\ UNCHANGED <<script, stdout, exit_code, trace, argv, json_data, include_accessors,
                   exc, disk>>

\* the pygltflib entry point GLTFConverter.load picks
loader(path) == IF lower(path.suffix) = ".glb" THEN "load_binary" ELSE "load"

\* GLTFConverter.load on a path that does not exist
LoadMissing ==
    /\ script = Converter /\ pc = "load" /\ ~exists(input_file[1])
    /\ Say(<<Msg("Loading", input_file)>>)
    /\ Call(loader(input_file[1]), input_file)
    /\ exc' = Some("FileNotFoundError")
    /\ pc' = "except"
    /\ UNCHANGED <<inspVars, viewVars, promptVars>>
    /\ UNCHANGED <<script, exit_code, argv, input_file, output_file, gltf, json_data,
                   include_accessors, disk>>

\* GLTFConverter.load: the library parses the file into a document
LoadOk ==
    /\ script = Converter /\ pc = "load" /\ exists(input_file[1])
    /\ \E doc \in Documents : gltf' = Some(doc)
    /\ Say(<<Msg("Loading", input_file), Msg("Loaded", None)>>)
    /\ Call(loader(input_file[1]), input_file)
    /\ pc' = "save_json"
    /\ UNCHANGED <<inspVars, viewVars, promptVars>>
    /\ UNCHANGED <<script, exit_code, argv, input_file, output_file, json_data,
                   include_accessors, exc, disk>>

\* GLTFConverter.load: the library rejects the file
LoadFails ==
    /\ script = Converter /\ pc = "load" /\ exists(input_file[1])
    /\ Say(<<Msg("Loading", input_file)>>)
    /\ Call(loader(input_file[1]), input_file)
    /\ exc' = Some("JSONDecodeError")
    /\ pc' = "except"
    /\ UNCHANGED <<inspVars, viewVars, promptVars>>
    /\ UNCHANGED <<script, exit_code, argv, input_file, output_file, gltf, json_data,
                   include_accessors, disk>>

\* save_json with the mkdir of line 417 done before the extraction of line 414
Convert_after_mkdir ==
    /\ script = Converter /\ pc = "save_json"
    /\ include_accessors' = TRUE
    /\ disk' = [disk EXCEPT !.dirs = @ \cup {output_file[1].dir}]
    /\ IF convert_raises(gltf)
       THEN /\ exc' = Some(IF gltf = None THEN "AttributeError" ELSE "IndexError")
            /\ pc' = "except"
            /\ Say(<<Msg("Extracting", None)>>)
            /\ UNCHANGED json_data
       ELSE /\ json_data' = Some(convert_to_json(gltf, TRUE))
            /\ pc' = "mkdir"
            /\ Say(<<Msg("Extracting", None), Msg("Extraction complete", None)>>)
            /\ UNCHANGED exc
    /\ UNCHANGED <<inspVars, viewVars, promptVars>>
    /\ UNCHANGED <<script, exit_code, trace, argv, input_file, output_file, gltf>>

\* save_json line 414: json_data = self.convert_to_json()
Convert ==
    /\ script = Converter /\ pc = "save_json"
    /\ include_accessors' = TRUE
    /\ IF convert_raises(gltf)
       THEN /\ exc' = Some(IF gltf = None THEN "AttributeError" ELSE "IndexError")
            /\ pc' = "except"
            /\ Say(<<Msg("Extracting", None)>>)
            /\ UNCHANGED json_data
       ELSE /\ json_data' = Some(convert_to_json(gltf, TRUE))
            /\ pc' = "mkdir"
            /\ Say(<<Msg("Extracting", None), Msg("Extraction complete", None)>>)
            /\ UNCHANGED exc
    /\ UNCHANGED <<inspVars, viewVars, promptVars>>
    /\ UNCHANGED <<script, exit_code, trace, argv, input_file, output_file, gltf, disk>>

\* save_json line 417: output_file.parent.mkdir(parents=True, exist_ok=True)
Mkdir ==
    /\ script = Converter /\ pc = "mkdir"
    /\ Call("mkdir", Some(output_file[1].dir))
    /\ \/ /\ disk' = [disk EXCEPT !.dirs = @ \cup {output_file[1].dir}]
          /\ pc' = "open"
          /\ UNCHANGED exc
       \/ /\ output_file[1].dir \notin disk.dirs
          /\ exc' = Some("PermissionError")
          /\ pc' = "except"
          /\ UNCHANGED disk
    /\ UNCHANGED <<inspVars, viewVars, promptVars>>
    /\ UNCHANGED <<script, stdout, exit_code, argv, input_file, output_file, gltf, json_data,
                   include_accessors>>

\* save_json lines 419-423: open(output_file, 'w') and json.dump
Write ==
    /\ script = Converter /\ pc = "open"
    /\ Call("open", output_file)
    /\ \/ /\ disk' = [disk EXCEPT !.files[output_file[1]] = JsonFile(json_data[1])]
          /\ pc' = "saved"
          /\ UNCHANGED exc
       \/ /\ exc' = Some("PermissionError")        \* open refuses
          /\ pc' = "except"
          /\ UNCHANGED disk
       \/ /\ disk' = [disk EXCEPT !.files[output_file[1]] = Truncated]
          /\ exc' = Some("OSError")                \* the write fails midway
          /\ pc' = "except"
    /\ UNCHANGED <<inspVars, viewVars, promptVars>>
    /\ UNCHANGED <<script, stdout, exit_code, argv, input_file, output_file, gltf, json_data,
                   include_accessors>>

\* save_json lines 425-426, then main lines 462-463 and the end of the script
Success ==
    /\ script = Converter /\ pc = "saved"
    /\ Say(<<Msg("Saved JSON to", output_file), Msg("Conversion successful", None)>>)
    /\ Exit(0)
    /\ UNCHANGED <<inspVars, viewVars, promptVars>>
    /\ UNCHANGED <<script, trace, argv, convVars>>

\* main lines 465-467: except FileNotFoundError
ExceptFileNotFound ==
    /\ script = Converter /\ pc = "except" /\ exc = Some("FileNotFoundError")
    /\ Say(<<Msg("Error: Input file not found", input_file)>>)
    /\ Exit(1)
    /\ UNCHANGED <<inspVars, viewVars, promptVars>>
    /\ UNCHANGED <<script, trace, argv, convVars>>

\* the handler without its sys.exit(1): the script runs off its end
ExceptException_no_exit ==
    /\ script = Converter /\ pc = "except" /\ exc # Some("FileNotFoundError")
    /\ Say(<<Msg("Error during conversion", exc), Msg("Traceback", exc)>>)
    /\ Exit(0)
    /\ UNCHANGED <<inspVars, viewVars, promptVars>>
    /\ UNCHANGED <<script, trace, argv, convVars>>

\* main lines 468-472: except Exception
ExceptException ==
    /\ script = Converter /\ pc = "except" /\ exc # Some("FileNotFoundError")
    /\ Say(<<Msg("Error during conversion", exc), Msg("Traceback", exc)>>)
    /\ Exit(1)
    /\ UNCHANGED <<inspVars, viewVars, promptVars>>
    /\ UNCHANGED <<script, trace, argv, convVars>>

-----------------------------------------------------------------------------
(* converter.py used as a library: a program holds one GLTFConverter and   *)
(* calls load, convert_to_json and save_json on it in any order.  An       *)
(* exception goes to the caller (exc); json_data is what the last call     *)
(* returned.  The object is loaded at most once; what the methods print is *)
(* not recorded.                                                           *)

Library == "GLTFConverter"

InitLibrary ==
    /\ script = Library /\ pc = "idle" /\ stdout = <<>> /\ exit_code = None
    /\ trace = <<>> /\ argv = <<>>
    /\ InspIdle /\ ViewIdle /\ PromptIdle
    /\ input_file \in {Some(ModelGlb), Some(MissingGlb)}
    /\ output_file = Some(ReportJson)
    /\ gltf = None /\ json_data = None /\ include_accessors = TRUE /\ exc = None
    /\ disk \in Disks

\* GLTFConverter.load
ApiLoad ==
    /\ script = Library /\ gltf = None
    /\ IF ~exists(input_file[1])
       THEN exc' = Some("FileNotFoundError") /\ UNCHANGED gltf
       ELSE \/ \E doc \in Documents : gltf' = Some(doc) /\ exc' = None
            \/ exc' = Some("JSONDecodeError") /\ UNCHANGED gltf
    /\ json_data' = None
    /\ UNCHANGED <<inspVars, viewVars, promptVars>>
    /\ UNCHANGED <<procVars, input_file, output_file, include_accessors, disk>>

\* convert_to_json that returns a report of empty collections when nothing is loaded
ApiConvertToJson_empty_report ==
    /\ script = Library
    /\ \E include \in BOOLEAN :
          /\ include_accessors' = include
          /\ IF gltf = None
             THEN /\ json_data' = Some(("asset" :> Empty) @@ ("scenes" :> <<>>))
                  /\ exc' = None
             ELSE IF convert_raises(gltf)
             THEN /\ exc' = Some("IndexError")
                  /\ json_data' = None
             ELSE /\ json_data' = Some(convert_to_json(gltf, include))
                  /\ exc' = None
    /\ UNCHANGED <<inspVars, viewVars, promptVars>>
    /\ UNCHANGED <<procVars, input_file, output_file, gltf, disk>>

\* GLTFConverter.convert_to_json(include_accessors)
ApiConvertToJson ==
    /\ script = Library
    /\ \E include \in BOOLEAN :
          /\ include_accessors' = include
          /\ IF convert_raises(gltf)
             THEN /\ exc' = Some(IF gltf = None THEN "AttributeError" ELSE "IndexError")
                  /\ json_data' = None
             ELSE /\ json_data' = Some(convert_to_json(gltf, include))
                  /\ exc' = None
    /\ UNCHANGED <<inspVars, viewVars, promptVars>>
    /\ UNCHANGED <<procVars, input_file, output_file, gltf, disk>>

\* GLTFConverter.save_json(output_path)
ApiSaveJson ==
    /\ script = Library
    /\ include_accessors' = TRUE
    /\ json_data' = None
    /\ IF convert_raises(gltf)
       THEN /\ exc' = Some(IF gltf = None THEN "AttributeError" ELSE "IndexError")
            /\ UNCHANGED disk
       ELSE \/ /\ output_file[1].dir \notin disk.dirs       \* mkdir refuses
               /\ exc' = Some("PermissionError")
               /\ UNCHANGED disk
            \/ /\ exc' = Some("PermissionError")            \* open refuses
               /\ disk' = [disk EXCEPT !.dirs = @ \cup {output_file[1].dir}]
            \/ /\ exc' = Some("OSError")                    \* the write fails midway
               /\ disk' = [files |-> [disk.files EXCEPT ![output_file[1]] = Truncated],
                           dirs |-> disk.dirs \cup {output_file[1].dir}]
            \/ /\ exc' = None
               /\ disk' = [files |-> [disk.files EXCEPT ![output_file[1]] =
                                          JsonFile(convert_to_json(gltf, TRUE))],
                           dirs |-> disk.dirs \cup {output_file[1].dir}]
    /\ UNCHANGED <<inspVars, viewVars, promptVars>>
    /\ UNCHANGED <<procVars, input_file, output_file, gltf>>

NextConverter ==
    \/ MainUsage \/ MainArgs \/ LoadMissing \/ LoadOk \/ LoadFails \/ Convert
    \/ Mkdir \/ Write \/ Success \/ ExceptFileNotFound \/ ExceptException
    \/ ApiLoad \/ ApiConvertToJson \/ ApiSaveJson

SpecConverter == (InitConverter \/ InitLibrary) /\ [][NextConverter]_vars

-----------------------------------------------------------------------------
(* Properties of the converter *)

HasReport == gltf # None /\ json_data # None
Doc == gltf[1]
Report == json_data[1]

Copied(src, out, f) == f \in DOMAIN out /\ out[f] = src[f]
Omitted(out, f) == f \notin DOMAIN out
CopiedIff(c, src, out, f) == IF c THEN Copied(src, out, f) ELSE Omitted(out, f)
NonEmptyStr(o) == o \notin {None, Some("")}
NonEmptyList(o) == o \notin {None, Some(<<>>)}
NonZero(o) == o \notin {None, Some(0)}
\* out pairs every element of src, in order, with an object that satisfies P
Pairwise(src, out, P(_, _)) ==
    Len(out) = Len(src) /\ \A i \in 1..Len(src) : P(src[i], out[i])

C1_Node(src, out) ==
    /\ \A f \in {"mesh", "camera", "skin"} : CopiedIff(src[f] # None, src, out, f)
    /\ CopiedIff(NonEmptyStr(src.name), src, out, "name")
    /\ \A f \in {"children", "matrix", "translation", "rotation", "scale"} :
          CopiedIff(NonEmptyList(src[f]), src, out, f)
    /\ Omitted(out, "weights")

C1_TextureRef(src, out, f) ==
    IF src[f] # None
    THEN /\ f \in DOMAIN out
         /\ out[f][1].index = src[f][1].index
         /\ src[f][1].texCoord # None => out[f][1].texCoord = src[f][1].texCoord
    ELSE Omitted(out, f)

C1_Pbr(src, out) ==
    /\ CopiedIff(NonEmptyList(src.baseColorFactor), src, out, "baseColorFactor")
    /\ \A f \in {"metallicFactor", "roughnessFactor"} : CopiedIff(src[f] # None, src, out, f)
    /\ \A f \in {"baseColorTexture", "metallicRoughnessTexture"} : C1_TextureRef(src, out, f)

C1_Material(src, out) ==
    /\ \A f \in {"name", "alphaMode"} : CopiedIff(NonEmptyStr(src[f]), src, out, f)
    /\ CopiedIff(NonEmptyList(src.emissiveFactor), src, out, "emissiveFactor")
    /\ \A f \in {"alphaCutoff", "doubleSided"} : CopiedIff(src[f] # None, src, out, f)
    /\ IF src.pbrMetallicRoughness # None
       THEN /\ "pbrMetallicRoughness" \in DOMAIN out
            /\ C1_Pbr(src.pbrMetallicRoughness[1], out.pbrMetallicRoughness[1])
       ELSE Omitted(out, "pbrMetallicRoughness")
    /\ \A f \in {"normalTexture", "emissiveTexture"} : C1_TextureRef(src, out, f)
    /\ src.normalTexture # None /\ src.normalTexture[1].scale # None
          => out.normalTexture[1].scale = src.normalTexture[1].scale
    /\ Omitted(out, "occlusionTexture")

C1_Accessor(src, out) ==
    /\ \A f \in {"componentType", "count", "type"} : Copied(src, out, f)
    /\ \A f \in {"bufferView", "normalized"} : CopiedIff(src[f] # None, src, out, f)
    /\ CopiedIff(NonZero(src.byteOffset), src, out, "byteOffset")
    /\ \A f \in {"min", "max"} : CopiedIff(NonEmptyList(src[f]), src, out, f)
    /\ CopiedIff(NonEmptyStr(src.name), src, out, "name")
    /\ Omitted(out, "sparse")

\* the emitted entry of an accessor reference: the index and the accessor's facts
C1_Lookup(accessors, ref, entry) ==
    /\ entry.accessor = ref
    /\ \A f \in {"count", "type", "componentType"} :
          entry[f] = PyIndex(accessors, ref[1])[f]

C1_Primitive(accessors, src, out) ==
    /\ CopiedIff(src.material # None, src, out, "material")
    /\ DOMAIN out.attributes[1] = {a \in ATTRIBUTES : src.attributes[a] # None}
    /\ \A a \in DOMAIN out.attributes[1] :
          C1_Lookup(accessors, src.attributes[a], out.attributes[1][a][1])
    /\ IF src.indices # None
       THEN "indices" \in DOMAIN out /\ C1_Lookup(accessors, src.indices, out.indices[1])
       ELSE Omitted(out, "indices")

C1_Mesh(accessors, src, out) ==
    /\ CopiedIff(NonEmptyStr(src.name), src, out, "name")
    /\ CopiedIff(NonEmptyList(src.weights), src, out, "weights")
    /\ Len(out.primitives[1]) = Len(src.primitives)
    /\ \A j \in 1..Len(src.primitives) :
          C1_Primitive(accessors, src.primitives[j], out.primitives[1][j])

\* C1 (as amended): in every report, for every node, material, mesh and accessor:
\* a field the converter tests with "is not None" (node mesh/camera/skin, primitive
\* material, metallicFactor, roughnessFactor, alphaCutoff, doubleSided, accessor
\* bufferView/normalized) is emitted with the source value if and only if it is
\* present; a field it tests by truth value (every name, children, matrix,
\* translation, rotation, scale, weights, baseColorFactor, emissiveFactor,
\* alphaMode, byteOffset, min, max) is emitted with the source value if and only if
\* it is present and truthy, so "", 0 and [] are omitted like an absent field;
\* accessor componentType/count/type are always emitted with the source value; a
\* primitive's POSITION, NORMAL, TEXCOORD_0, COLOR_0 and indices are emitted if and
\* only if present, as {accessor: the source index, count, type, componentType of
\* the accessor it selects}; fields the converter does not read (node weights,
\* occlusionTexture, accessor sparse, other attributes) are never emitted.
C1_FieldMapping ==
    HasReport =>
        /\ Pairwise(Doc.nodes, Report.nodes, C1_Node)
        /\ Pairwise(Doc.materials, Report.materials, C1_Material)
        /\ "accessors" \in DOMAIN Report
              => Pairwise(Doc.accessors, Report.accessors, C1_Accessor)
        /\ Len(Report.meshes) = Len(Doc.meshes)
        /\ \A i \in 1..Len(Doc.meshes) :
              C1_Mesh(Doc.accessors, Doc.meshes[i], Report.meshes[i])

\* a report of a document whose node, material, accessor or primitive has fields
\* present and falsy, present and truthy, and absent
C1_Witness ==
    /\ HasReport
    /\ \/ Doc.nodes # <<>> /\ Doc.nodes[1] \in {NodeFalsy, NodeFull}
       \/ Doc.accessors # <<>> /\ Doc.accessors[1].byteOffset = Some(0)
       \/ Doc.meshes # <<>> /\ Doc.meshes[1].primitives # <<>>
            /\ Doc.meshes[1].primitives[1] = PrimFull

C1_SameOrAbsent(src, out, f) ==
    IF src[f] # None THEN Copied(src, out, f) ELSE Omitted(out, f)

\* C1 (as claimed): every field present in a source node, material, mesh or
\* accessor is in the output object with the same value under the same key, every
\* absent field is not, falsy values included; a primitive's attributes and indices
\* are emitted as the source value (the accessor index), not as another object.
C1_AsClaimed ==
    HasReport =>
        /\ Pairwise(Doc.nodes, Report.nodes,
                    LAMBDA src, out : \A f \in DOMAIN src : C1_SameOrAbsent(src, out, f))
        /\ Pairwise(Doc.materials, Report.materials,
                    LAMBDA src, out :
                        \A f \in {"name", "emissiveFactor", "alphaMode", "alphaCutoff",
                                  "doubleSided"} : C1_SameOrAbsent(src, out, f))
        /\ "accessors" \in DOMAIN Report
              => Pairwise(Doc.accessors, Report.accessors,
                          LAMBDA src, out : \A f \in DOMAIN src : C1_SameOrAbsent(src, out, f))
        /\ Pairwise(Doc.meshes, Report.meshes,
                    LAMBDA src, out :
                        /\ \A f \in {"name", "weights"} : C1_SameOrAbsent(src, out, f)
                        /\ \A j \in 1..Len(src.primitives) :
                              \A a \in DOMAIN out.primitives[1][j].attributes[1] :
                                  "accessor" \notin
                                      DOMAIN out.primitives[1][j].attributes[1][a][1])

\* every emitted field but index and the nested ones is the source's, or a default
FromSource(src, out, nested, defaults) ==
    \A k \in DOMAIN out \ ({"index"} \cup nested) :
        \/ out[k] = src[k]
        \/ k \in DOMAIN defaults /\ src[k] = None /\ out[k] = defaults[k]

\* every default is emitted when the source field is absent
Defaulted(src, out, defaults) ==
    \A k \in DOMAIN defaults : src[k] = None => k \in DOMAIN out /\ out[k] = defaults[k]

C2_TextureRefs(src, out, fields, defaults) ==
    \A f \in fields \cap DOMAIN out :
        /\ src[f] # None
        /\ FromSource(src[f][1], out[f][1], {}, defaults)
        /\ Defaulted(src[f][1], out[f][1], defaults)

C2_Material(src, out, texDefaults, normalDefaults) ==
    /\ FromSource(src, out, {"pbrMetallicRoughness", "normalTexture", "emissiveTexture"}, Empty)
    /\ "pbrMetallicRoughness" \in DOMAIN out
          => /\ src.pbrMetallicRoughness # None
             /\ FromSource(src.pbrMetallicRoughness[1], out.pbrMetallicRoughness[1],
                           {"baseColorTexture", "metallicRoughnessTexture"}, Empty)
             /\ C2_TextureRefs(src.pbrMetallicRoughness[1], out.pbrMetallicRoughness[1],
                               {"baseColorTexture", "metallicRoughnessTexture"}, texDefaults)
    /\ C2_TextureRefs(src, out, {"emissiveTexture"}, texDefaults)
    /\ C2_TextureRefs(src, out, {"normalTexture"}, normalDefaults)

C2_Primitive(src, out, modeDefault) ==
    /\ FromSource(src, out, {"attributes", "indices"}, modeDefault)
    /\ Defaulted(src, out, modeDefault)
    /\ \A a \in DOMAIN out.attributes[1] : out.attributes[1][a][1].accessor = src.attributes[a]
    /\ "indices" \in DOMAIN out => out.indices[1].accessor = src.indices

C2_Mesh(src, out, modeDefault) ==
    /\ FromSource(src, out, {"primitives"}, Empty)
    /\ Len(out.primitives[1]) = Len(src.primitives)
    /\ \A j \in 1..Len(src.primitives) :
          C2_Primitive(src.primitives[j], out.primitives[1][j], modeDefault)

C2_Plain(src, out) == FromSource(src, out, {}, Empty)

\* the emitted fields are the source's, with the given defaults and no other
C2_RoundTrip(doc, rep, sceneDefaults, texDefaults, normalDefaults, modeDefault) ==
    /\ doc.asset # None => FromSource(doc.asset[1], rep.asset, {}, Empty)
    /\ doc.asset = None => rep.asset = Empty
    /\ Pairwise(doc.scenes, rep.scenes,
                LAMBDA src, out : /\ FromSource(src, out, {}, sceneDefaults)
                                  /\ Defaulted(src, out, sceneDefaults))
    /\ Pairwise(doc.nodes, rep.nodes, C2_Plain)
    /\ Pairwise(doc.materials, rep.materials,
                LAMBDA src, out : C2_Material(src, out, texDefaults, normalDefaults))
    /\ Pairwise(doc.meshes, rep.meshes, LAMBDA src, out : C2_Mesh(src, out, modeDefault))
    /\ Pairwise(doc.textures, rep.textures, C2_Plain)
    /\ Pairwise(doc.images, rep.images, C2_Plain)
    /\ Pairwise(doc.buffers, rep.buffers, C2_Plain)
    /\ "accessors" \in DOMAIN rep => Pairwise(doc.accessors, rep.accessors, C2_Plain)
    /\ \A k \in {"extensionsUsed", "extensionsRequired"} \cap DOMAIN rep : rep[k] = doc[k]

\* C2 (as amended): every field of the report other than the generated index and
\* the accessor facts of a primitive's attributes and indices holds the value the
\* source has for that field, or is one of four defaults emitted for an absent
\* field: a primitive's mode 4, a texture reference's texCoord 0, a normal
\* texture's scale 1.0, a scene's nodes []; each of the four is emitted whenever
\* its field is absent, and nothing else is added.
C2_RoundTripWithDefaults ==
    HasReport =>
        C2_RoundTrip(Doc, Report, "nodes" :> Some(<<>>), "texCoord" :> Some(0),
                     ("texCoord" :> Some(0)) @@ ("scale" :> Some(1)), "mode" :> Some(4))

\* a report of a material whose normal texture has neither texCoord nor scale
C2_Witness ==
    /\ HasReport
    /\ Doc.materials # <<>>
    /\ Doc.materials[1].normalTexture = Some([index |-> Some(0), texCoord |-> None, scale |-> None])
    /\ Report.materials[1].normalTexture[1].scale = Some(1)

\* C2 (as claimed): the emitted fields are the source's populated fields, and the
\* only default the converter adds is a primitive's mode 4: none for a texture
\* reference's texCoord, a normal texture's scale or a scene's nodes.
C2_AsClaimed ==
    HasReport => C2_RoundTrip(Doc, Report, Empty, Empty, Empty, "mode" :> Some(4))

BaseKeys == {"asset", "scenes", "nodes", "meshes", "materials", "textures", "images", "buffers"}

\* out has one object per element of src, numbered from 0 in the source's order
Indexed(src, out) ==
    Len(out) = Len(src) /\ \A i \in 1..Len(src) : out[i].index = Some(i - 1)

\* C3: a report always has the keys asset, scenes, nodes, meshes, materials,
\* textures, images and buffers, has accessors if and only if include_accessors,
\* and extensionsUsed / extensionsRequired if and only if the document's list is
\* not empty; every collection of the report has the length and the order of the
\* source collection, each element (and each primitive within its mesh) with
\* index = its zero-based position.
C3_ReportShape ==
    HasReport =>
        /\ DOMAIN Report =
              BaseKeys \cup (IF include_accessors THEN {"accessors"} ELSE {})
              \cup {k \in {"extensionsUsed", "extensionsRequired"} : Doc[k] # <<>>}
        /\ \A c \in (DOMAIN Report \cap DOMAIN Doc) \ {"asset", "extensionsUsed", "extensionsRequired"} :
              Indexed(Doc[c], Report[c])
        /\ \A i \in 1..Len(Doc.meshes) :
              Indexed(Doc.meshes[i].primitives, Report.meshes[i].primitives[1])
        \* the object at position i is made from the source element at position i
        /\ \A i \in 1..Len(Doc.nodes) :
              Doc.nodes[i].mesh # None => Copied(Doc.nodes[i], Report.nodes[i], "mesh")
        /\ \A i \in 1..Len(Doc.scenes) : Report.scenes[i].nodes \in {Doc.scenes[i].nodes, Some(<<>>)}
        /\ \A i \in 1..Len(Doc.materials) :
              Doc.materials[i].alphaCutoff # None
                  => Copied(Doc.materials[i], Report.materials[i], "alphaCutoff")
        /\ \A i \in 1..Len(Doc.textures) :
              Doc.textures[i].source # None => Copied(Doc.textures[i], Report.textures[i], "source")
        /\ \A i \in 1..Len(Doc.images) :
              Doc.images[i].bufferView # None
                  => Copied(Doc.images[i], Report.images[i], "bufferView")
        /\ \A i \in 1..Len(Doc.buffers) : Copied(Doc.buffers[i], Report.buffers[i], "byteLength")
        /\ "accessors" \in DOMAIN Report
              => \A i \in 1..Len(Doc.accessors) :
                    Copied(Doc.accessors[i], Report.accessors[i], "count")

\* a report without accessors of a document with two different nodes
C3_Witness ==
    /\ HasReport /\ ~include_accessors
    /\ Len(Doc.nodes) = 2 /\ Doc.nodes[1] # Doc.nodes[2]

NoNullIn(obj) == \A k \in DOMAIN obj : obj[k] # None
NoNullRefs(obj, fields) == \A f \in fields \cap DOMAIN obj : NoNullIn(obj[f][1])

\* C4 (as claimed): no key anywhere in a report has a null value, the keys written
\* unconditionally included (asset version, buffer byteLength, accessor
\* componentType/count/type, texture-reference index).
C4_NoNullEmitted ==
    HasReport =>
        /\ NoNullIn(Report.asset)
        /\ \A c \in DOMAIN Report \ {"asset", "extensionsUsed", "extensionsRequired"} :
              \A i \in 1..Len(Report[c]) : NoNullIn(Report[c][i])
        /\ \A i \in 1..Len(Report.materials) :
              /\ NoNullRefs(Report.materials[i],
                            {"pbrMetallicRoughness", "normalTexture", "emissiveTexture"})
              /\ "pbrMetallicRoughness" \in DOMAIN Report.materials[i]
                    => NoNullRefs(Report.materials[i].pbrMetallicRoughness[1],
                                  {"baseColorTexture", "metallicRoughnessTexture"})
        /\ \A i \in 1..Len(Report.meshes) :
              \A j \in 1..Len(Report.meshes[i].primitives[1]) :
                  LET prim == Report.meshes[i].primitives[1][j]
                  IN  /\ NoNullIn(prim)
                      /\ NoNullRefs(prim, {"indices"})
                      /\ \A a \in DOMAIN prim.attributes[1] : NoNullIn(prim.attributes[1][a][1])

-----------------------------------------------------------------------------
(* Properties of the converter's command line *)

\* a run of converter.py with an input argument, at its end
ConverterRan == script = Converter /\ pc = "done" /\ Len(argv) >= 2
\* load, extraction and the write each happened
Completed ==
    /\ gltf # None
    /\ json_data # None
    /\ disk.files[output_file[1]].kind = "json"
    /\ disk.files[output_file[1]].data = json_data[1]

\* C8: a run of the converter's command line with an input argument exits with
\* code 0 if and only if load, extraction and the write all completed and nothing
\* was raised; an exception other than FileNotFoundError ends the run with its
\* traceback printed and exit code 1, and "Conversion successful" is printed on
\* no run in which an exception was raised.
C8_ExitCodes ==
    /\ ConverterRan => (exit_code = Some(0) <=> (exc = None /\ Completed))
    /\ ConverterRan /\ exc \notin {None, Some("FileNotFoundError")}
          => /\ PrintedWith("Traceback", exc)
             /\ exit_code = Some(1)
    /\ script = Converter /\ exc # None => ~Printed("Conversion successful")
    /\ script = Converter /\ Printed("Conversion successful") => exit_code = Some(0)

\* a run that ended on an IndexError raised during extraction, after a good load
C8_Witness ==
    /\ ConverterRan /\ exc = Some("IndexError") /\ gltf # None
    /\ PrintedWith("Traceback", exc)

-----------------------------------------------------------------------------
(* inspect_car.py.  A name is a str, modelled as a sequence of characters.  *)
(* The parsed JSON is a dict; a key's value is option-wrapped, <<>> being   *)
(* JSON null.  Of a material the model keeps name and pbrMetallicRoughness, *)
(* of a node name, of a mesh name and primitives, of a primitive material.  *)
(* The lines printed for one material are one "material" record.            *)

Inspector == "inspect_car.py"

Uppercase == <<"A", "B", "C", "D", "E", "F", "G", "H", "I", "J", "K", "L", "M", "N", "O", "P", "Q", "R", "S", "T", "U", "V", "W", "X", "Y", "Z">>
Lowercase == <<"a", "b", "c", "d", "e", "f", "g", "h", "i", "j", "k", "l", "m", "n", "o", "p", "q", "r", "s", "t", "u", "v", "w", "x", "y", "z">>
Digits == <<"0", "1", "2", "3", "4", "5", "6", "7", "8", "9">>

\* str.lower()
lower_char(c) ==
    IF \E k \in DOMAIN Uppercase : Uppercase[k] = c
    THEN Lowercase[CHOOSE k \in DOMAIN Uppercase : Uppercase[k] = c]
    ELSE c
str_lower(s) == [k \in 1..Len(s) |-> lower_char(s[k])]

\* needle in hay, for str
contains(needle, hay) ==
    \E k \in 1..(Len(hay) - Len(needle) + 1) : SubSeq(hay, k, k + Len(needle) - 1) = needle

\* str(n) for n >= 0
RECURSIVE str_int(_)
str_int(n) == IF n < 10 THEN <<Digits[n + 1]>> ELSE Append(str_int(n \div 10), Digits[(n % 10) + 1])

\* dict.get(key, default)
get(d, key, default) == IF key \in DOMAIN d THEN d[key] ELSE default

material_keywords == <<<<"g", "l", "a", "s", "s">>, <<"w", "i", "n", "d", "o", "w">>, <<"w", "i", "n", "d", "s", "h", "i", "e", "l", "d">>, <<"t", "r", "a", "n", "s", "p", "a", "r", "e", "n", "t">>>>
node_keywords == <<<<"g", "l", "a", "s", "s">>, <<"w", "i", "n", "d", "o", "w">>, <<"w", "i", "n", "d", "s", "h", "i", "e", "l", "d">>>>

\* any(keyword in name for keyword in keywords), without the lower()
is_glass_case_sensitive(name, keywords) ==
    \E k \in DOMAIN keywords : contains(keywords[k], name)

\* lines 58 and 82: any(keyword in name.lower() for keyword in keywords)
is_glass(name, keywords) ==
    \E k \in DOMAIN keywords : contains(keywords[k], str_lower(name))

RECURSIVE Flatten(_)
Flatten(seqs) == IF seqs = <<>> THEN <<>> ELSE Head(seqs) \o Flatten(Tail(seqs))

Ran(out) == [out |-> out, raised |-> None]
Raised(out, e) == [out |-> out, raised |-> Some(e)]

\* a for loop over results, the outcome of each iteration: what the loop prints
\* up to and including the first iteration that raises, and what it raised
for_loop(results) ==
    LET failing == {k \in DOMAIN results : results[k].raised # None}
        last == IF failing = {} THEN Len(results)
                ELSE CHOOSE k \in failing : \A m \in failing : k <= m
    IN  [out |-> Flatten([k \in 1..last |-> results[k].out]),
         raised |-> IF failing = {} THEN None ELSE results[last].raised]

\* lines 45-65, one material.  pbr.get on null and name.lower() on null raise
\* AttributeError before anything is printed for the material.
inspect_material(i, mat) ==
    LET name == get(mat, "name", Some(<<"M", "a", "t", "e", "r", "i", "a", "l", "_">> \o str_int(i)))
        pbr == get(mat, "pbrMetallicRoughness", Some(Empty))
    IN  IF pbr = None \/ name = None THEN Raised(<<>>, "AttributeError")
        ELSE Ran(<<Msg("material", [i |-> i, name |-> name[1],
                                    likely_glass |-> is_glass(name[1], material_keywords)])>>)

\* lines 41-73
inspect_materials(d) ==
    IF "materials" \notin DOMAIN d THEN Ran(<<>>)
    ELSE LET loop == for_loop([k \in 1..Len(d.materials) |->
                                  inspect_material(k - 1, d.materials[k])])
         IN  [loop EXCEPT !.out = <<Msg("MATERIALS FOUND", Len(d.materials))>> \o @]

\* lines 81-84, one node
inspect_node(i, node) ==
    LET name == get(node, "name", Some(<<"N", "o", "d", "e", "_">> \o str_int(i)))
    IN  IF name = None THEN Raised(<<>>, "AttributeError")
        ELSE IF is_glass(name[1], node_keywords)
             THEN Ran(<<Msg("GLASS", [i |-> i, name |-> name[1]])>>)
             ELSE Ran(<<>>)

\* lines 76-87
inspect_nodes(d) ==
    IF "nodes" \notin DOMAIN d THEN Ran(<<>>)
    ELSE LET loop == for_loop([k \in 1..Len(d.nodes) |-> inspect_node(k - 1, d.nodes[k])])
             found == IF loop.raised = None /\ loop.out # <<>>
                      THEN <<Msg("glass-related nodes", Len(loop.out))>> ELSE <<>>
         IN  [loop EXCEPT !.out = <<Msg("NODES FOUND", Len(d.nodes))>> \o @ \o found]

\* the primitive loop with an out-of-range material index skipped, not raised
inspect_primitive_skips_out_of_range(d, j, prim) ==
    LET mat_idx == get(prim, "material", Some(-1))
    IN  IF mat_idx = None THEN Raised(<<>>, "TypeError")
        ELSE IF mat_idx[1] >= 0 /\ "materials" \in DOMAIN d /\ mat_idx[1] < Len(d.materials)
             THEN Ran(<<Msg("Primitive",
                            [j |-> j, material |-> mat_idx[1],
                             name |-> get(d.materials[mat_idx[1] + 1], "name",
                                          Some(<<"M", "a", "t", "_">> \o str_int(mat_idx[1])))])>>)
             ELSE Ran(<<>>)

\* lines 99-102, one primitive: None >= 0 raises TypeError, an index past the
\* end of the materials raises IndexError
inspect_primitive(d, j, prim) ==
    LET mat_idx == get(prim, "material", Some(-1))
    IN  IF mat_idx = None THEN Raised(<<>>, "TypeError")
        ELSE IF mat_idx[1] >= 0 /\ "materials" \in DOMAIN d
             THEN IF mat_idx[1] >= Len(d.materials) THEN Raised(<<>>, "IndexError")
                  ELSE Ran(<<Msg("Primitive",
                                 [j |-> j, material |-> mat_idx[1],
                                  name |-> get(d.materials[mat_idx[1] + 1], "name",
                                               Some(<<"M", "a", "t", "_">> \o str_int(mat_idx[1])))])>>)
             ELSE Ran(<<>>)

\* lines 94-102, one mesh: len(None) raises TypeError
inspect_mesh(d, i, mesh) ==
    LET name == get(mesh, "name", Some(<<"M", "e", "s", "h", "_">> \o str_int(i)))
        primitives == get(mesh, "primitives", Some(<<>>))
    IN  IF primitives = None THEN Raised(<<>>, "TypeError")
        ELSE LET loop == for_loop([k \in 1..Len(primitives[1]) |->
                                      inspect_primitive(d, k - 1, primitives[1][k])])
             IN  [loop EXCEPT !.out = <<Msg("mesh", [i |-> i, name |-> name,
                                                     primitives |-> Len(primitives[1])])>> \o @]

\* lines 90-102
inspect_meshes(d) ==
    IF "meshes" \notin DOMAIN d THEN Ran(<<>>)
    ELSE LET loop == for_loop([k \in 1..Len(d.meshes) |-> inspect_mesh(d, k - 1, d.meshes[k])])
         IN  [loop EXCEPT !.out = <<Msg("MESHES FOUND", Len(d.meshes))>> \o @]

\* the names: a piece of a keyword or not, in either case, followed by the rest
\* of a keyword or not
NamePrefixes == {<<>>, <<"G", "l">>, <<"W", "I", "N", "D">>, <<"w", "i", "n", "d">>, <<"t", "r", "a", "n", "s">>, <<"B", "o", "d", "y">>}
NameSuffixes == {<<>>, <<"a", "s", "s">>, <<"o", "w">>, <<"s", "h", "i", "e", "l", "d">>, <<"p", "a", "r", "e", "n", "t">>, <<"_", "g", "L", "A", "S", "S", "_", "L">>}
Names == {p \o s : p \in NamePrefixes, s \in NameSuffixes}
Named == {Empty, "name" :> None} \cup {"name" :> Some(n) : n \in Names}
NamedCore == {Empty, "name" :> Some(<<"G", "l", "a", "s", "s">>), "name" :> Some(<<"B", "o", "d", "y">>)}

InspMaterialVals ==
    Named \cup {("name" :> Some(<<"G", "l", "a", "s", "s">>)) @@ ("pbrMetallicRoughness" :> p) : p \in {None, Some(Empty)}}
InspPrimVals == {Empty} \cup {"material" :> m : m \in {None, Some(-1), Some(0), Some(1), Some(2)}}
InspPrimCore == {Empty, "material" :> Some(0), "material" :> Some(1)}
InspMeshVals ==
    {Empty, "name" :> Some(<<"B", "o", "d", "y">>), "name" :> None, "primitives" :> None}
    \cup {("name" :> Some(<<"B", "o", "d", "y">>)) @@ ("primitives" :> Some(l)) :
             l \in ListsUpTo(InspPrimVals, InspPrimCore, MaxPrims)}
InspMeshCore == {Empty, "primitives" :> Some(<<"material" :> Some(0)>>)}
InspectDocs ==
    {Empty}
    \cup {"materials" :> l : l \in Lists(InspMaterialVals, NamedCore)}
    \cup {"nodes" :> l : l \in Lists(Named, NamedCore)}
    \cup {("materials" :> m) @@ ("nodes" :> n) : m \in Lists(NamedCore, NamedCore),
                                                   n \in Lists(NamedCore, NamedCore)}
    \cup {"meshes" :> l : l \in Lists(InspMeshVals, InspMeshCore)}
    \cup {("materials" :> m) @@ ("meshes" :> l) :
             m \in {<<>>, <<"name" :> Some(<<"G", "l", "a", "s", "s">>)>>, <<Empty, "name" :> Some(<<"B", "o", "d", "y">>)>>},
             l \in Lists(InspMeshVals, InspMeshCore)}

car_glb_json == Path("assets/models/bmw", "bmw.glb", ".json")
car_gltf_json == Path("assets/models/bmw", "bmw.gltf", ".json")
gltf_file == Path("assets/models/bmw", "bmw", ".gltf")
InspectorPaths == {car_glb_json, car_gltf_json, gltf_file}
InspectorDisks ==
    {[files |-> [q \in InspectorPaths |-> IF q \in present THEN GltfFile ELSE Absent],
      dirs |-> {".", "assets/models/bmw"}] : present \in SUBSET InspectorPaths}

InitInspector ==
    /\ script = Inspector /\ pc = "start" /\ stdout = <<>> /\ exit_code = None
    /\ trace = <<>> /\ argv = <<Inspector>>
    /\ ConvIdle /\ disk \in InspectorDisks
    /\ InspIdle /\ ViewIdle /\ PromptIdle

\* an exception nothing catches: the traceback, exit code 1
Uncaught(out, e) == Say(out \o <<Msg("Traceback", Some(e))>>) /\ Exit(1)

\* the choice with the two JSON files tried in the other order
ChooseJson_gltf_json_first ==
    /\ script = Inspector /\ pc = "start"
    /\ json_file' = IF exists(car_gltf_json) THEN Some(car_gltf_json)
                    ELSE IF exists(car_glb_json) THEN Some(car_glb_json)
                    ELSE None
    /\ pc' = "chosen"
    /\ UNCHANGED <<script, stdout, exit_code, trace, argv, data>>
    /\ UNCHANGED <<convVars, viewVars, promptVars>>

\* lines 16-20: the first of the two JSON files that exists
ChooseJson ==
    /\ script = Inspector /\ pc = "start"
    /\ json_file' = IF exists(car_glb_json) THEN Some(car_glb_json)
                    ELSE IF exists(car_gltf_json) THEN Some(car_gltf_json)
                    ELSE None
    /\ pc' = "chosen"
    /\ UNCHANGED <<script, stdout, exit_code, trace, argv, data>>
    /\ UNCHANGED <<convVars, viewVars, promptVars>>

\* lines 22-31 without a gltf file: nothing to read, the function returns
NothingFound ==
    /\ script = Inspector /\ pc = "chosen" /\ json_file = None /\ ~exists(gltf_file)
    /\ Say(<<Msg("ERROR: No JSON file found", None), Msg("Checking gltf file directly", None),
             Msg("No gltf file found either", None)>>)
    /\ Exit(0)
    /\ UNCHANGED <<script, trace, argv, inspVars>>
    /\ UNCHANGED <<convVars, viewVars, promptVars>>

\* the file lines 27 or 33 open
opened == IF json_file # None THEN json_file[1] ELSE gltf_file
not_found == IF json_file = None
             THEN <<Msg("ERROR: No JSON file found", None), Msg("Checking gltf file directly", None)>>
             ELSE <<>>

\* lines 22-38: open the file and json.load it
LoadJson ==
    /\ script = Inspector /\ pc = "chosen" /\ (json_file # None \/ exists(gltf_file))
    /\ Call("open", Some(opened))
    /\ \E d \in InspectDocs : data' = Some(d)
    /\ Say(not_found \o <<Msg("BMW CAR MODEL ANALYSIS", None)>>)
    /\ pc' = "materials"
    /\ UNCHANGED <<script, exit_code, argv, json_file>>
    /\ UNCHANGED <<convVars, viewVars, promptVars>>

\* lines 28 and 34: the file is not JSON
LoadJsonFails ==
    /\ script = Inspector /\ pc = "chosen" /\ (json_file # None \/ exists(gltf_file))
    /\ Call("open", Some(opened))
    /\ Uncaught(not_found, "JSONDecodeError")
    /\ UNCHANGED <<script, argv, inspVars>>
    /\ UNCHANGED <<convVars, viewVars, promptVars>>

\* one section of the report: it prints its lines and the script goes on, or
\* it raises and the script dies
Section(at, result, then) ==
    /\ script = Inspector /\ pc = at
    /\ IF result.raised # None
       THEN Uncaught(result.out, result.raised[1])
       ELSE Say(result.out) /\ pc' = then /\ UNCHANGED exit_code
    /\ UNCHANGED <<script, trace, argv, inspVars>>
    /\ UNCHANGED <<convVars, viewVars, promptVars>>

\* lines 41-73
InspectMaterials == Section("materials", inspect_materials(data[1]), "nodes")
\* lines 76-87
InspectNodes == Section("nodes", inspect_nodes(data[1]), "meshes")
\* lines 90-102 and the end of the script
InspectMeshes ==
    /\ script = Inspector /\ pc = "meshes"
    /\ LET result == inspect_meshes(data[1])
       IN  IF result.raised # None
           THEN Uncaught(result.out, result.raised[1])
           ELSE Say(result.out) /\ Exit(0)
    /\ UNCHANGED <<script, trace, argv, inspVars>>
    /\ UNCHANGED <<convVars, viewVars, promptVars>>

NextInspector ==
    \/ ChooseJson \/ NothingFound \/ LoadJson \/ LoadJsonFails
    \/ InspectMaterials \/ InspectNodes \/ InspectMeshes

SpecInspector == InitInspector /\ [][NextInspector]_vars

-----------------------------------------------------------------------------
(* main.py: the viewer wrapper.  argparse is modelled by the namespace it   *)
(* returns; trimesh.load(force='scene') returns a Scene or raises.  What    *)
(* trimesh does (load, bounds, geometry, save_image, show) is an outcome    *)
(* chosen at each call.                                                     *)

Viewer == "main.py"
\* Path(__file__).parent
ScriptDir == "src/src/tools"
AbsoluteDirs == {"/data"}
is_absolute(path) == path.dir \in AbsoluteDirs
\* parent / path
joinpath(parent, path) == [path EXCEPT !.dir = IF @ = "." THEN parent ELSE parent \o "/" \o @]

SceneGltf == Path("models", "scene", ".gltf")
DataGlb == Path("/data", "car", ".glb")
BmwGltf == joinpath(ScriptDir, Path("models", "bmw", ".gltf"))

\* main lines 180-187
resolve(a) ==
    IF a.gltf_file # None
    THEN IF is_absolute(a.gltf_file[1]) THEN a.gltf_file[1] ELSE joinpath(ScriptDir, a.gltf_file[1])
    ELSE BmwGltf

\* line 109
preview_path(path) == Path(path.dir, path.stem \o "_preview", ".png")
PngFile == [kind |-> "png"]

ViewerArgs ==
    [gltf_file : {None, Some(SceneGltf), Some(DataGlb)}, no_info : BOOLEAN, preview : BOOLEAN]
ViewerModels == {resolve(a) : a \in ViewerArgs}
ViewerPaths == ViewerModels \cup {preview_path(q) : q \in ViewerModels}
ViewerDisks ==
    {[files |-> [q \in ViewerPaths |-> IF q \in present THEN GltfFile ELSE Absent],
      dirs |-> {q.dir : q \in present}] : present \in SUBSET ViewerModels}

InitViewer ==
    /\ script = Viewer /\ pc = "main" /\ stdout = <<>> /\ exit_code = None
    /\ trace = <<>> /\ argv = <<Viewer>>
    /\ args \in {Some(a) : a \in ViewerArgs}
    /\ gltf_path = None /\ scene = None
    /\ ConvIdle /\ disk \in ViewerDisks
    /\ InspIdle /\ PromptIdle

\* main lines 177-190 and load_and_render_gltf line 43
ViewerMain ==
    /\ script = Viewer /\ pc = "main"
    /\ gltf_path' = Some(resolve(args[1]))
    /\ Say(<<Msg("Loading GLTF file", gltf_path')>>)
    /\ pc' = "exists"
    /\ UNCHANGED <<script, exit_code, trace, argv, args, scene>>
    /\ UNCHANGED <<convVars, inspVars, promptVars>>

\* lines 45-47: the file is not there; the function returns and the script ends
ViewerMissing ==
    /\ script = Viewer /\ pc = "exists" /\ ~exists(gltf_path[1])
    /\ Say(<<Msg("Error: File not found at", gltf_path)>>)
    /\ Exit(0)
    /\ UNCHANGED <<script, trace, argv, viewVars>>
    /\ UNCHANGED <<convVars, inspVars, promptVars>>

\* lines 50-51: trimesh.load returns a Scene
ViewerLoad ==
    /\ script = Viewer /\ pc = "exists" /\ exists(gltf_path[1])
    /\ Call("trimesh.load", gltf_path)
    /\ scene' = Some("Scene")
    /\ pc' = "bounds"
    /\ UNCHANGED <<script, stdout, exit_code, argv, args, gltf_path>>
    /\ UNCHANGED <<convVars, inspVars, promptVars>>

\* the handler without its return: the run goes on to the viewer
ViewerLoadFails_no_return ==
    /\ script = Viewer /\ pc = "exists" /\ exists(gltf_path[1])
    /\ Call("trimesh.load", gltf_path)
    /\ Say(<<Msg("Error loading GLTF file", gltf_path)>>)
    /\ pc' = "show"
    /\ UNCHANGED <<script, exit_code, argv, viewVars>>
    /\ UNCHANGED <<convVars, inspVars, promptVars>>

\* lines 52-54: trimesh.load raises; the function returns and the script ends
ViewerLoadFails ==
    /\ script = Viewer /\ pc = "exists" /\ exists(gltf_path[1])
    /\ Call("trimesh.load", gltf_path)
    /\ Say(<<Msg("Error loading GLTF file", gltf_path)>>)
    /\ Exit(0)
    /\ UNCHANGED <<script, argv, viewVars>>
    /\ UNCHANGED <<convVars, inspVars, promptVars>>

\* lines 57-68: the bounds are printed, or a warning if computing them raises
ViewerBounds ==
    /\ script = Viewer /\ pc = "bounds"
    /\ Call("scene.bounds", None)
    /\ \/ Say(<<Msg("Scene Bounds", None)>>)
       \/ Say(<<Msg("Warning: Could not compute scene bounds", None)>>)
    /\ pc' = "info"
    /\ UNCHANGED <<script, exit_code, argv, viewVars>>
    /\ UNCHANGED <<convVars, inspVars, promptVars>>

\* line 71 with --no-info
ViewerNoInfo ==
    /\ script = Viewer /\ pc = "info" /\ args[1].no_info
    /\ pc' = "preview"
    /\ UNCHANGED <<script, stdout, exit_code, trace, argv, viewVars>>
    /\ UNCHANGED <<convVars, inspVars, promptVars>>

\* lines 71-102
ViewerInfo ==
    /\ script = Viewer /\ pc = "info" /\ ~args[1].no_info
    /\ Call("scene.geometry", None)
    /\ Say(<<Msg("GLTF Scene Information", None), Msg("Total Vertices", None)>>)
    /\ pc' = "preview"
    /\ UNCHANGED <<script, exit_code, argv, viewVars>>
    /\ UNCHANGED <<convVars, inspVars, promptVars>>

\* lines 83-85 on a geometry without faces (a point cloud, a path): nothing
\* catches the AttributeError
ViewerInfoRaises ==
    /\ script = Viewer /\ pc = "info" /\ ~args[1].no_info
    /\ Call("scene.geometry", None)
    /\ Say(<<Msg("GLTF Scene Information", None), Msg("Traceback", Some("AttributeError"))>>)
    /\ Exit(1)
    /\ UNCHANGED <<script, argv, viewVars>>
    /\ UNCHANGED <<convVars, inspVars, promptVars>>

\* line 108 without --preview
ViewerNoPreview ==
    /\ script = Viewer /\ pc = "preview" /\ ~args[1].preview
    /\ pc' = "show"
    /\ UNCHANGED <<script, stdout, exit_code, trace, argv, viewVars, disk>>
    /\ UNCHANGED <<input_file, output_file, gltf, json_data, include_accessors, exc>>
    /\ UNCHANGED <<inspVars, promptVars>>

\* lines 108-111 and export_preview_image: the image is written, or there is
\* none, or save_image or the write raises; the viewer opens in every case
ViewerPreview ==
    /\ script = Viewer /\ pc = "preview" /\ args[1].preview
    /\ \/ /\ trace' = trace \o <<[op |-> "save_image", arg |-> None],
                                 [op |-> "open", arg |-> Some(preview_path(gltf_path[1]))]>>
          /\ disk' = [disk EXCEPT !.files[preview_path(gltf_path[1])] = PngFile]
          /\ Say(<<Msg("Generating preview image", None),
                   Msg("Preview saved to", Some(preview_path(gltf_path[1])))>>)
       \/ /\ Call("save_image", None)
          /\ Say(<<Msg("Generating preview image", None),
                   Msg("Warning: Could not generate preview image", None)>>)
          /\ UNCHANGED disk
       \/ /\ Call("save_image", None)
          /\ Say(<<Msg("Generating preview image", None), Msg("Error generating preview", None)>>)
          /\ UNCHANGED disk
    /\ pc' = "show"
    /\ UNCHANGED <<script, exit_code, argv, viewVars>>
    /\ UNCHANGED <<input_file, output_file, gltf, json_data, include_accessors, exc>>
    /\ UNCHANGED <<inspVars, promptVars>>

\* lines 114-135: scene.show(**viewer_config) runs until the window is closed
ViewerShow ==
    /\ script = Viewer /\ pc = "show"
    /\ Call("scene.show", Some("viewer_config"))
    /\ Say(<<Msg("Opening 3D viewer", None)>>)
    /\ Exit(0)
    /\ UNCHANGED <<script, argv, viewVars>>
    /\ UNCHANGED <<convVars, inspVars, promptVars>>

\* lines 136-138: scene.show(**viewer_config) raises
ViewerShowFails ==
    /\ script = Viewer /\ pc = "show"
    /\ Call("scene.show", Some("viewer_config"))
    /\ Say(<<Msg("Opening 3D viewer", None), Msg("Error rendering scene", None),
             Msg("Trying basic rendering method", None)>>)
    /\ pc' = "basic"
    /\ UNCHANGED <<script, exit_code, argv, viewVars>>
    /\ UNCHANGED <<convVars, inspVars, promptVars>>

\* lines 139-141: scene.show() runs until the window is closed
ViewerShowBasic ==
    /\ script = Viewer /\ pc = "basic"
    /\ Call("scene.show", None)
    /\ Exit(0)
    /\ UNCHANGED <<script, stdout, argv, viewVars>>
    /\ UNCHANGED <<convVars, inspVars, promptVars>>

\* lines 142-144: scene.show() raises too
ViewerShowBasicFails ==
    /\ script = Viewer /\ pc = "basic"
    /\ Call("scene.show", None)
    /\ Say(<<Msg("Alternative rendering also failed", None),
             Msg("Note: 3D viewer requires a display", None)>>)
    /\ Exit(0)
    /\ UNCHANGED <<script, argv, viewVars>>
    /\ UNCHANGED <<convVars, inspVars, promptVars>>

NextViewer ==
    \/ ViewerMain \/ ViewerMissing \/ ViewerLoad \/ ViewerLoadFails \/ ViewerBounds
    \/ ViewerNoInfo \/ ViewerInfo \/ ViewerInfoRaises \/ ViewerNoPreview \/ ViewerPreview
    \/ ViewerShow \/ ViewerShowFails \/ ViewerShowBasic \/ ViewerShowBasicFails

SpecViewer == InitViewer /\ [][NextViewer]_vars

-----------------------------------------------------------------------------
(* calculate_cockpit.py and skybox_colors.py: three prompts each.  A line   *)
(* typed at a prompt is a str, a sequence of characters.  A coordinate is   *)
(* an integer number of 10^-6 m, a position one of 10^-8 m, so that         *)
(* min + width * (percent / 100.0) is exact; percents are whole numbers.    *)

Calculator == "calculate_cockpit.py"
Skybox == "skybox_colors.py"

\* lines 10-15, in units of 10^-6 m
min_bounds == <<-2463150, -1042890, -3684550>>
max_bounds == <<2330300, 1042890, 994301>>
width == max_bounds[1] - min_bounds[1]
height == max_bounds[2] - min_bounds[2]
depth == max_bounds[3] - min_bounds[3]

\* every axis scaled by the width
calculate_position_by_width(x_percent, y_percent, z_percent) ==
    <<min_bounds[1] * 100 + width * x_percent,
      min_bounds[2] * 100 + width * y_percent,
      min_bounds[3] * 100 + width * z_percent>>

\* lines 17-22, in units of 10^-8 m
calculate_position(x_percent, y_percent, z_percent) ==
    <<min_bounds[1] * 100 + width * x_percent,
      min_bounds[2] * 100 + height * y_percent,
      min_bounds[3] * 100 + depth * z_percent>>

\* skybox_colors.py lines 9-11 as "{:.3f}" prints the result: thousandths,
\* rounded to nearest (1000 * c / 255 is never halfway between two integers)
rgb_to_glsl(r, g, b) ==
    <<(2000 * r + 255) \div 510, (2000 * g + 255) \div 510, (2000 * b + 255) \div 510>>

Whitespace == {" ", "\t"}
\* str.strip()
RECURSIVE lstrip(_)
lstrip(s) == IF s # <<>> /\ Head(s) \in Whitespace THEN lstrip(Tail(s)) ELSE s
RECURSIVE rstrip(_)
rstrip(s) == IF s # <<>> /\ s[Len(s)] \in Whitespace THEN rstrip(SubSeq(s, 1, Len(s) - 1)) ELSE s
strip(s) == rstrip(lstrip(s))

is_digit(c) == \E k \in DOMAIN Digits : Digits[k] = c
digit_value(c) == (CHOOSE k \in DOMAIN Digits : Digits[k] = c) - 1
RECURSIVE digits_value(_)
digits_value(s) ==
    IF s = <<>> THEN 0 ELSE 10 * digits_value(SubSeq(s, 1, Len(s) - 1)) + digit_value(s[Len(s)])
signed(s) == s # <<>> /\ s[1] \in {"+", "-"}
unsigned(s) == IF signed(s) THEN Tail(s) ELSE s
sign_of(s) == IF signed(s) /\ s[1] = "-" THEN -1 ELSE 1

\* int(s) on a stripped str: an optional sign and digits, else ValueError
is_int(s) == unsigned(s) # <<>> /\ \A k \in DOMAIN unsigned(s) : is_digit(unsigned(s)[k])
int_value(s) == sign_of(s) * digits_value(unsigned(s))

\* float(s) on a stripped str: an optional sign, digits and at most one point
\* with a digit on one side of it, else ValueError (exponents, inf and nan
\* are not among the lines typed); the value, for a fraction of zeros
points(s) == {k \in DOMAIN s : s[k] = "."}
is_float(s) ==
    LET u == unsigned(s)
    IN  /\ Cardinality(points(u)) <= 1
        /\ \A k \in DOMAIN u \ points(u) : is_digit(u[k])
        /\ Len(u) > Cardinality(points(u))
whole(s) == IF points(s) = {} THEN s ELSE SubSeq(s, 1, (CHOOSE k \in points(s) : TRUE) - 1)
float_value(s) == sign_of(s) * digits_value(whole(unsigned(s)))

\* the lines typed at a prompt
InputTexts ==
    {<<>>, <<" ">>, <<"3", "5">>, <<" ", "6", "0", " ">>, <<"1", "0", "0">>, <<"1", "5", "0">>, <<"-", "5">>, <<"+", "7">>, <<"3", "5", ".", "0">>, <<"0">>, <<"2", "5", "5">>, <<"2", "5", "6">>, <<"a", "b", "c">>, <<"3", "x">>}

\* the bracketed defaults, lines 35-41 and 90-92
calculator_defaults == <<35, 55, 60>>
skybox_defaults == <<<<"1", "3", "5">>, <<"2", "0", "6">>, <<"2", "3", "5">>>>

\* what input() did at a prompt
Typed(text) == [prompt |-> Len(values) + 1, event |-> "line", text |-> text]
Event(e) == [prompt |-> Len(values) + 1, event |-> e, text |-> <<>>]

InitCalculator ==
    /\ script = Calculator /\ pc = "start" /\ stdout = <<>> /\ exit_code = None
    /\ trace = <<>> /\ argv = <<Calculator>>
    /\ values = <<>> /\ position = None
    /\ ConvIdle /\ disk = [files |-> <<>>, dirs |-> {"."}]
    /\ InspIdle /\ ViewIdle

InitSkybox ==
    /\ script = Skybox /\ pc = "start" /\ stdout = <<>> /\ exit_code = None
    /\ trace = <<>> /\ argv = <<Skybox>>
    /\ values = <<>> /\ position = None
    /\ ConvIdle /\ disk = [files |-> <<>>, dirs |-> {"."}]
    /\ InspIdle /\ ViewIdle

\* calculate_cockpit.py lines 24-31
CalcBanner ==
    /\ script = Calculator /\ pc = "start"
    /\ Say(<<Msg("Car dimensions", <<width, height, depth>>),
             Msg("Enter percentages (0-100)", None)>>)
    /\ pc' = "prompt"
    /\ UNCHANGED <<script, exit_code, trace, argv, promptVars>>
    /\ UNCHANGED <<convVars, inspVars, viewVars>>

\* lines 34-41, one prompt: a line is typed
CalcInput ==
    /\ script = Calculator /\ pc = "prompt"
    /\ \E text \in InputTexts :
          LET x_input == strip(text)
          IN  /\ Call("input", Typed(text))
              /\ IF x_input = <<>>
                 THEN /\ values' = Append(values, calculator_defaults[Len(values) + 1])
                      /\ pc' = IF Len(values) = 2 THEN "calculate" ELSE "prompt"
                      /\ UNCHANGED <<stdout, exit_code>>
                 ELSE IF is_float(x_input)
                 THEN /\ values' = Append(values, float_value(x_input))
                      /\ pc' = IF Len(values) = 2 THEN "calculate" ELSE "prompt"
                      /\ UNCHANGED <<stdout, exit_code>>
                 ELSE \* lines 84-86: except ValueError
                      /\ Say(<<Msg("Error: Please enter valid numbers", None)>>)
                      /\ Exit(1)
                      /\ UNCHANGED values
    /\ UNCHANGED <<script, argv, position>>
    /\ UNCHANGED <<convVars, inspVars, viewVars>>

\* the handler leaves with the interpreter's exit code for an interrupt
CalcInterrupt_exit_130 ==
    /\ script = Calculator /\ pc = "prompt"
    /\ Call("input", Event("KeyboardInterrupt"))
    /\ Say(<<Msg("Cancelled.", None)>>)
    /\ Exit(130)
    /\ UNCHANGED <<script, argv, promptVars>>
    /\ UNCHANGED <<convVars, inspVars, viewVars>>

\* lines 87-89: Ctrl-C at a prompt, except KeyboardInterrupt
CalcInterrupt ==
    /\ script = Calculator /\ pc = "prompt"
    /\ Call("input", Event("KeyboardInterrupt"))
    /\ Say(<<Msg("Cancelled.", None)>>)
    /\ Exit(0)
    /\ UNCHANGED <<script, argv, promptVars>>
    /\ UNCHANGED <<convVars, inspVars, viewVars>>

\* end of input at a prompt: nothing catches the EOFError
CalcEOF ==
    /\ script = Calculator /\ pc = "prompt"
    /\ Call("input", Event("EOFError"))
    /\ Say(<<Msg("Traceback", Some("EOFError"))>>)
    /\ Exit(1)
    /\ UNCHANGED <<script, argv, promptVars>>
    /\ UNCHANGED <<convVars, inspVars, viewVars>>

\* lines 65-82
suggestions(x_percent, y_percent, z_percent) ==
    <<Msg("Z", IF z_percent > 70 THEN "too far forward"
               ELSE IF z_percent < 50 THEN "in the back seats" ELSE "looks good"),
      Msg("Y", IF y_percent > 70 THEN "too high"
               ELSE IF y_percent < 40 THEN "too low" ELSE "looks good"),
      Msg("X", IF x_percent < 20 \/ x_percent > 80 THEN "too far to one side"
               ELSE "looks reasonable")>>

\* lines 43-82 and the end of the script
CalcReport ==
    /\ script = Calculator /\ pc = "calculate"
    /\ position' = Some(calculate_position(values[1], values[2], values[3]))
    /\ Say(<<Msg("Percentages", values), Msg("Position", position'),
             Msg("glm::vec3 cockpitOffset", position')>>
           \o suggestions(values[1], values[2], values[3]))
    /\ Exit(0)
    /\ UNCHANGED <<script, trace, argv, values>>
    /\ UNCHANGED <<convVars, inspVars, viewVars>>

\* skybox_colors.py lines 13-89
SkyBanner ==
    /\ script = Skybox /\ pc = "start"
    /\ Say(<<Msg("SKYBOX COLOR PRESETS", None), Msg("SHADER CODE EXAMPLES", None),
             Msg("Enter RGB values (0-255)", None)>>)
    /\ pc' = "prompt"
    /\ UNCHANGED <<script, exit_code, trace, argv, promptVars>>
    /\ UNCHANGED <<convVars, inspVars, viewVars>>

\* lines 90-92, one prompt: a line is typed
SkyInput ==
    /\ script = Skybox /\ pc = "prompt"
    /\ \E text \in InputTexts :
          LET typed == IF strip(text) # <<>> THEN strip(text)
                       ELSE skybox_defaults[Len(values) + 1]
          IN  /\ Call("input", Typed(text))
              /\ IF is_int(typed)
                 THEN /\ values' = Append(values, int_value(typed))
                      /\ pc' = IF Len(values) = 2 THEN "calculate" ELSE "prompt"
                      /\ UNCHANGED <<stdout, exit_code>>
                 ELSE \* lines 98-99: except ValueError, then the end of the script
                      /\ Say(<<Msg("Using defaults...", None)>>)
                      /\ Exit(0)
                      /\ UNCHANGED values
    /\ UNCHANGED <<script, argv, position>>
    /\ UNCHANGED <<convVars, inspVars, viewVars>>

\* lines 98-99: Ctrl-C at a prompt, except KeyboardInterrupt, then the end of the script
SkyInterrupt ==
    /\ script = Skybox /\ pc = "prompt"
    /\ Call("input", Event("KeyboardInterrupt"))
    /\ Say(<<Msg("Using defaults...", None)>>)
    /\ Exit(0)
    /\ UNCHANGED <<script, argv, promptVars>>
    /\ UNCHANGED <<convVars, inspVars, viewVars>>

\* end of input at a prompt: nothing catches the EOFError
SkyEOF ==
    /\ script = Skybox /\ pc = "prompt"
    /\ Call("input", Event("EOFError"))
    /\ Say(<<Msg("Traceback", Some("EOFError"))>>)
    /\ Exit(1)
    /\ UNCHANGED <<script, argv, promptVars>>
    /\ UNCHANGED <<convVars, inspVars, viewVars>>

\* lines 94-96 and the end of the script
SkyReport ==
    /\ script = Skybox /\ pc = "calculate"
    /\ Say(<<Msg("RGB", values), Msg("GLSL", rgb_to_glsl(values[1], values[2], values[3]))>>)
    /\ Exit(0)
    /\ UNCHANGED <<script, trace, argv, promptVars>>
    /\ UNCHANGED <<convVars, inspVars, viewVars>>

NextPrompts ==
    \/ CalcBanner \/ CalcInput \/ CalcInterrupt \/ CalcEOF \/ CalcReport
    \/ SkyBanner \/ SkyInput \/ SkyInterrupt \/ SkyEOF \/ SkyReport

SpecPrompts == (InitCalculator \/ InitSkybox) /\ [][NextPrompts]_vars

-----------------------------------------------------------------------------
(* The model bounds visualizer: src/tools/archive/visualize_model.py *)

Visualizer == "visualize_model.py"

\* lines 8-9, in units of 10^-7 m
model_min_bounds == <<-24631500, -10428900, -36845500>>
model_max_bounds == <<23303000, 10428900, 9943010>>
\* lines 12-14
model_width == model_max_bounds[1] - model_min_bounds[1]
model_height == model_max_bounds[2] - model_min_bounds[2]
model_depth == model_max_bounds[3] - model_min_bounds[3]
\* lines 28-30
center_x == (model_min_bounds[1] + model_max_bounds[1]) \div 2
center_y == (model_min_bounds[2] + model_min_bounds[2]) \div 2
center_z == (model_min_bounds[3] + model_max_bounds[3]) \div 2
\* lines 93-95, and lines 41-43 and 48-49
\* with 0.35 = 7/20, 0.55 = 11/20 and 0.60 = 3/5
cockpit_x == model_min_bounds[1] + (model_width * 7) \div 20
cockpit_y == model_min_bounds[2] + (model_height * 11) \div 20
cockpit_z == model_min_bounds[3] + (model_depth * 3) \div 5

\* lines 39-82, in the order of the dict
positions ==
    <<[name |-> "Cockpit View (Driver)", x |-> cockpit_x, y |-> cockpit_y, z |-> cockpit_z,
       description |-> "Inside car, driver's seat"],
      [name |-> "Cockpit View (Centered)", x |-> center_x, y |-> cockpit_y, z |-> cockpit_z,
       description |-> "Inside car, centered"],
      [name |-> "Front View", x |-> center_x, y |-> center_y,
       z |-> model_max_bounds[3] + 50000000, description |-> "5m in front of car"],
      [name |-> "Side View (Left)", x |-> model_min_bounds[1] - 50000000, y |-> center_y,
       z |-> center_z, description |-> "5m to the left"],
      [name |-> "Side View (Right)", x |-> model_max_bounds[1] + 50000000, y |-> center_y,
       z |-> center_z, description |-> "5m to the right"],
      [name |-> "Top View", x |-> center_x, y |-> model_max_bounds[2] + 100000000,
       z |-> center_z, description |-> "10m above car"],
      [name |-> "Rear View", x |-> center_x, y |-> center_y,
       z |-> model_min_bounds[3] - 50000000, description |-> "5m behind car"]>>

\* f"{v:.Nf}": v in units of 10^-7 rounded to a multiple of unit, as a count of
\* units.  When v is exactly half way in decimal, the digit printed depends on
\* the binary double that stands for v: either neighbour.
format_f(v, unit) ==
    LET q == v \div unit
        r == v - q * unit
    IN  IF 2 * r < unit THEN {q} ELSE IF 2 * r > unit THEN {q + 1} ELSE {q, q + 1}
\* the sequences that take their k-th element from the k-th set
RECURSIVE Choices(_)
Choices(sets) ==
    IF sets = <<>> THEN {<<>>}
    ELSE {<<h>> \o t : h \in Head(sets), t \in Choices(Tail(sets))}
\* the numbers of one line formatted, every way they can come out
format_all(vs, unit) == Choices([k \in 1..Len(vs) |-> format_f(vs[k], unit)])

InitVisualizer ==
    /\ script = Visualizer /\ pc = "start" /\ stdout = <<>> /\ exit_code = None
    /\ trace = <<>> /\ argv = <<Visualizer>>
    /\ ConvIdle /\ disk = [files |-> <<>>, dirs |-> {"."}]
    /\ InspIdle /\ ViewIdle /\ PromptIdle

\* lines 16-32: dimensions, bounds and center
VisInformation ==
    /\ script = Visualizer /\ pc = "start"
    /\ \E dims \in format_all(<<model_width, model_height, model_depth>>, 100000),
          lo \in format_all(model_min_bounds, 100000),
          hi \in format_all(model_max_bounds, 100000),
          center \in format_all(<<center_x, center_y, center_z>>, 100000) :
          Say(<<Msg("BMW M4 MODEL INFORMATION", None),
                Msg("Dimensions", dims), Msg("Min", lo), Msg("Max", hi),
                Msg("Center", center)>>)
    /\ pc' = "positions"
    /\ UNCHANGED <<script, exit_code, trace, argv>>
    /\ UNCHANGED <<convVars, inspVars, viewVars, promptVars>>

\* lines 34-87: one Position line for each entry of positions
VisPositions ==
    /\ script = Visualizer /\ pc = "positions"
    /\ \E at \in Choices([k \in 1..Len(positions) |->
                              format_all(<<positions[k].x, positions[k].y, positions[k].z>>,
                                         100000)]) :
            Say(<<Msg("SUGGESTED CAMERA POSITIONS", None)>>
                 \o [k \in 1..Len(positions) |->
                        Msg("Position", [name |-> positions[k].name, at |-> at[k],
                                         description |-> positions[k].description])])
    /\ pc' = "copy-paste"
    /\ UNCHANGED <<script, exit_code, trace, argv>>
    /\ UNCHANGED <<convVars, inspVars, viewVars, promptVars>>

\* lines 89-101 and the end of the script
VisCopyPaste ==
    /\ script = Visualizer /\ pc = "copy-paste"
    /\ \E offset \in format_all(<<cockpit_x, cockpit_y, cockpit_z>>, 10) :
          Say(<<Msg("COPY-PASTE VALUES FOR C++ CODE", None),
                Msg("glm::vec3 cockpitOffset", offset),
                Msg("Try adjusting percentages", None)>>)
    /\ Exit(0)
    /\ UNCHANGED <<script, trace, argv>>
    /\ UNCHANGED <<convVars, inspVars, viewVars, promptVars>>

NextVisualizer == VisInformation \/ VisPositions \/ VisCopyPaste

-----------------------------------------------------------------------------
(* Every script *)

Init ==
    \/ InitConverter \/ InitLibrary \/ InitInspector \/ InitViewer
    \/ InitCalculator \/ InitSkybox \/ InitVisualizer
Next == NextConverter \/ NextInspector \/ NextViewer \/ NextPrompts \/ NextVisualizer
Spec == Init /\ [][Next]_vars

-----------------------------------------------------------------------------
(* Properties of the inspector *)

\* keyword occurs in name when case is ignored
Mentions(name, keyword) ==
    \E off \in 0..(Len(name) - Len(keyword)) :
        \A k \in 1..Len(keyword) : lower_char(name[off + k]) = keyword[k]
\* the name the inspector tests: the element's own, or the generated placeholder
TestedName(list, i, placeholder) ==
    IF "name" \in DOMAIN list[i + 1] THEN list[i + 1].name[1]
    ELSE placeholder \o <<Digits[i + 1]>>
Lines(tag) == {k \in DOMAIN stdout : stdout[k].msg = tag}

\* C5: every material the inspector reports is reported under its name, or under
\* Material_<i> if it has none, and as likely glass if and only if that name,
\* lowercased, contains "glass", "window", "windshield" or "transparent"; once
\* the nodes are done, a node has a (GLASS) line if and only if its name, or
\* Node_<i> if it has none, lowercased, contains "glass", "window" or
\* "windshield"; "transparent" alone does not make a glass node.
C5_GlassHeuristic ==
    script = Inspector /\ data # None =>
        /\ \A k \in Lines("material") :
              LET i == stdout[k].arg.i
                  name == TestedName(data[1].materials, i, <<"M", "a", "t", "e", "r", "i", "a", "l", "_">>)
              IN  /\ stdout[k].arg.name = name
                  /\ stdout[k].arg.likely_glass
                        <=> \E w \in {<<"g", "l", "a", "s", "s">>, <<"w", "i", "n", "d", "o", "w">>, <<"w", "i", "n", "d", "s", "h", "i", "e", "l", "d">>, <<"t", "r", "a", "n", "s", "p", "a", "r", "e", "n", "t">>} :
                               Mentions(name, w)
        /\ pc = "nodes" /\ "materials" \in DOMAIN data[1]
              => \A i \in 0..(Len(data[1].materials) - 1) :
                    \E k \in Lines("material") : stdout[k].arg.i = i
        /\ pc = "meshes" /\ "nodes" \in DOMAIN data[1]
              => \A i \in 0..(Len(data[1].nodes) - 1) :
                    LET name == TestedName(data[1].nodes, i, <<"N", "o", "d", "e", "_">>)
                    IN  PrintedWith("GLASS", [i |-> i, name |-> name])
                           <=> \E w \in {<<"g", "l", "a", "s", "s">>, <<"w", "i", "n", "d", "o", "w">>, <<"w", "i", "n", "d", "s", "h", "i", "e", "l", "d">>} : Mentions(name, w)
        /\ \A k \in Lines("GLASS") :
              stdout[k].arg.name = TestedName(data[1].nodes, stdout[k].arg.i, <<"N", "o", "d", "e", "_">>)

\* the inspector went through a material named WINDshield, which it reports as
\* likely glass, and an unnamed one
C5_Witness ==
    /\ script = Inspector /\ pc = "nodes"
    /\ PrintedWith("material", [i |-> 0, name |-> <<"W", "I", "N", "D", "s", "h", "i", "e", "l", "d">>, likely_glass |-> TRUE])
    /\ PrintedWith("material", [i |-> 1, name |-> <<"M", "a", "t", "e", "r", "i", "a", "l", "_", "1">>, likely_glass |-> FALSE])

-----------------------------------------------------------------------------
(* Properties of the prompt scripts *)

\* C6 (as amended): calculate_position computes each coordinate as
\* min + (max - min) * percent / 100 with the bounds of its own axis; for the
\* x bounds min = -2.46315, max = 2.3303 and percent 35 the x output is
\* -0.7854425 (printed as -0.785443), not -0.79645.
C6_LinearInterpolation ==
    script = Calculator /\ position # None =>
        /\ \A axis \in 1..3 :
              position[1][axis]
                 = min_bounds[axis] * 100 + (max_bounds[axis] - min_bounds[axis]) * values[axis]
        /\ min_bounds[1] = -2463150 /\ max_bounds[1] = 2330300
        /\ values[1] = 35 => position[1][1] = -78544250

\* the calculator printed the position for the default percentages 35, 55, 60
C6_Witness ==
    /\ script = Calculator /\ position # None
    /\ values = <<35, 55, 60>>
    /\ PrintedWith("Position", position)

\* C6 (as claimed): for percent 35 the x output is approximately -0.79645
\* (within half a unit of its last digit, in units of 10^-8)
C6_AsClaimed ==
    script = Calculator /\ position # None /\ values[1] = 35 =>
        /\ position[1][1] >= -79645000 - 500
        /\ position[1][1] <= -79645000 + 500

Interrupted ==
    \E k \in DOMAIN trace : trace[k].op = "input" /\ trace[k].arg.event = "KeyboardInterrupt"

\* C9: in the cockpit calculator and the skybox colour generator, once a keyboard
\* interrupt has arrived at a prompt (the first, second or third), the script has
\* printed its message ("Cancelled." / "Using defaults..."), has printed no
\* calculated position and no custom colour, and the process has exited with
\* code 0.
C9_InterruptCaught ==
    script \in {Calculator, Skybox} /\ Interrupted =>
        /\ pc = "done" /\ exit_code = Some(0)
        /\ Printed(IF script = Calculator THEN "Cancelled." ELSE "Using defaults...")
        /\ ~Printed("Position") /\ ~Printed("glm::vec3 cockpitOffset")
        /\ ~Printed("RGB") /\ ~Printed("GLSL")
        /\ position = None

\* the calculator was interrupted at its third prompt
C9_Witness ==
    /\ script = Calculator /\ Interrupted
    /\ Len(values) = 2 /\ trace[Len(trace)].arg.prompt = 3

\* the advertised range of a prompt: 0-100 percent, 0-255 RGB
Advertised == IF script = Calculator THEN 0..100 ELSE 0..255
Numeric(s) == IF script = Calculator THEN is_float(s) ELSE is_int(s)
NumberOf(s) == IF script = Calculator THEN float_value(s) ELSE int_value(s)
DefaultOf(prompt) ==
    IF script = Calculator THEN calculator_defaults[prompt] ELSE <<135, 206, 235>>[prompt]

\* C10 (as claimed): by the end of a run, every line typed at a prompt that is not
\* a number, or is a number outside the advertised range, has been reported (an
\* error message was printed), the script having then exited or gone on with the
\* bracketed default; an empty line selected the bracketed default.
C10_BadInputReported ==
    script \in {Calculator, Skybox} /\ pc = "done" =>
        \A k \in DOMAIN trace :
            trace[k].op = "input" /\ trace[k].arg.event = "line" =>
                LET typed == strip(trace[k].arg.text)
                    prompt == trace[k].arg.prompt
                IN  /\ typed = <<>> => values[prompt] = DefaultOf(prompt)
                    /\ typed # <<>> /\ (~Numeric(typed) \/ NumberOf(typed) \notin Advertised)
                          => /\ Printed("Error: Please enter valid numbers")
                                \/ Printed("Using defaults...")
                             /\ \/ Len(values) < prompt
                                \/ values[prompt] = DefaultOf(prompt)

-----------------------------------------------------------------------------
(* Properties of every script *)

\* C7 (as claimed): the converter and the viewer wrapper, run with a path that does
\* not exist, print an error message naming that path and exit with code 1.
C7_MissingPathExits1 ==
    /\ script = Converter /\ pc = "done" /\ input_file # None /\ ~exists(input_file[1])
          => /\ PrintedWith("Error: Input file not found", input_file)
             /\ exit_code = Some(1)
    /\ script = Viewer /\ pc = "done" /\ args[1].gltf_file # None
       /\ gltf_path # None /\ ~exists(gltf_path[1])
          => /\ PrintedWith("Error: File not found at", gltf_path)
             /\ exit_code = Some(1)

-----------------------------------------------------------------------------
(* Failures and retries *)

\* an operation of the run has raised: the converter's exception in flight, an
\* uncaught exception's traceback, or one of the viewer's handlers has printed
RaisedInViewer ==
    \/ Printed("Error loading GLTF file")
    \/ Printed("Warning: Could not compute scene bounds")
    \/ Printed("Error generating preview")
    \/ Printed("Error rendering scene")
    \/ Printed("Alternative rendering also failed")
SomethingRaised ==
    \/ exc # None
    \/ Printed("Traceback")
    \/ Printed("Error: Please enter valid numbers")
    \/ script = Viewer /\ RaisedInViewer

\* C11 (as claimed): in every script, once an operation of the run has raised, no
\* further call on the outside world is made (nothing is attempted again, no later
\* stage runs): the only step left is the one that ends the run.
C11_FailureIsTerminal ==
    [][script # Library /\ SomethingRaised => trace' = trace /\ pc' = "done"]_vars

-----------------------------------------------------------------------------
(* Properties of the viewer wrapper *)

\* the stage of load_and_render_gltf a call belongs to
StageOf(op) ==
    CASE op = "trimesh.load" -> 1
      [] op = "scene.bounds" -> 2
      [] op = "scene.geometry" -> 3
      [] op \in {"save_image", "open"} -> 4
      [] op = "scene.show" -> 5
Calls(op) == {k \in DOMAIN trace : trace[k].op = op}
PreviewWritten == \E q \in DOMAIN disk.files : disk.files[q] = PngFile

\* C12: in every run of the viewer wrapper the calls happen in the order load,
\* bounds, mesh information, preview export, interactive viewer, each of the
\* first four at most once; the load is attempted only on a file the existence
\* check found; the mesh information is read only without --no-info and the
\* preview is attempted only with --preview; the viewer is opened only after a
\* load that returned a scene, after the bounds, after the mesh information
\* unless --no-info, and after the preview attempt if --preview; when the file
\* is missing or the load raises, the viewer is never opened and no preview is
\* attempted or written.
C12_StageOrder ==
    script = Viewer =>
        /\ \A i, j \in DOMAIN trace :
              i < j => StageOf(trace[i].op) <= StageOf(trace[j].op)
        /\ \A op \in {"trimesh.load", "scene.bounds", "scene.geometry", "save_image", "open"} :
              Cardinality(Calls(op)) <= 1
        /\ Called("trimesh.load") => exists(gltf_path[1])
        /\ Called("scene.geometry") => ~args[1].no_info
        /\ Called("save_image") => args[1].preview
        /\ Called("open") => Called("save_image")
        /\ PreviewWritten => Called("open")
        /\ Called("scene.show")
              => /\ Called("trimesh.load") /\ scene # None
                 /\ Called("scene.bounds")
                 /\ ~args[1].no_info => Called("scene.geometry")
                 /\ args[1].preview => Called("save_image")
        /\ pc \in {"preview", "show", "basic"} /\ ~args[1].no_info => Called("scene.geometry")
        /\ gltf_path # None /\ (~exists(gltf_path[1]) \/ Printed("Error loading GLTF file"))
              => /\ ~Called("scene.show") /\ ~Called("save_image") /\ ~Called("open")
                 /\ ~PreviewWritten

\* a run with --preview and the mesh information that wrote its preview and
\* opened the viewer
C12_Witness ==
    /\ script = Viewer /\ pc = "done"
    /\ args[1].preview /\ ~args[1].no_info
    /\ PreviewWritten /\ Called("scene.geometry") /\ Called("scene.show")

-----------------------------------------------------------------------------
(* The converter's lifecycle *)

Loads == Calls("load") \cup Calls("load_binary")
\* the load and the extraction are behind the run
PastExtraction == pc \in {"mkdir", "open", "saved"} \/ (pc = "done" /\ exit_code = Some(0))

C13_OnceEach ==
    script = Converter =>
        /\ Cardinality(Loads) <= 1
        /\ Len(argv) >= 2 /\ pc \notin {"main", "load"} => Cardinality(Loads) = 1
        /\ Cardinality(Lines("Extracting")) <= 1
        /\ PastExtraction
              => /\ Cardinality(Lines("Extracting")) = 1
                 /\ Cardinality(Lines("Extraction complete")) = 1
                 /\ json_data # None
        /\ Cardinality(Calls("open")) <= 1
        /\ Cardinality(Calls("mkdir")) <= 1
        /\ Called("open") \/ Called("mkdir")
              => /\ Cardinality(Loads) = 1 /\ gltf # None
                 /\ Printed("Extraction complete") /\ json_data # None

\* C13: in every run of the converter's command line on an input, the input is
\* loaded exactly once and the report is extracted at most once, exactly once if
\* the run gets to the write; the output's directory is created and the output
\* file is opened at most once each, and only after the load and the whole
\* extraction have completed; as long as no report has been extracted (the load
\* or an extraction step raised), the file system is left as it was: no file is
\* created or truncated and no directory is created.
C13_ReadOnceWriteOnce ==
    /\ []C13_OnceEach
    /\ [][script = Converter /\ json_data' = None => disk' = disk]_vars

\* a run that was to create out/report.json ended on an IndexError raised by the
\* extraction
C13_Witness ==
    /\ script = Converter /\ pc = "done" /\ exc = Some("IndexError")
    /\ output_file = Some(ReportJson) /\ "out" \notin disk.dirs

-----------------------------------------------------------------------------
(* Cross-references *)

\* the accessor indices of a document's primitives that the converter follows
FollowedRefs(doc) ==
    UNION {UNION {{prim.attributes[a][1] :
                      a \in {b \in {"POSITION", "NORMAL", "TEXCOORD_0", "COLOR_0"} :
                                prim.attributes[b] # None}}
                  \cup (IF prim.indices # None THEN {prim.indices[1]} ELSE {}) :
                  prim \in {doc.meshes[i].primitives[j] :
                               j \in 1..Len(doc.meshes[i].primitives)}} :
           i \in 1..Len(doc.meshes)}
\* one of them selects no accessor (Python list indexing: -n .. n-1 select one)
DanglingAccessor(doc) ==
    \E a \in FollowedRefs(doc) : a >= Len(doc.accessors) \/ a < -Len(doc.accessors)
\* the run or the caller has been through an extraction of the loaded document
Extracted ==
    \/ script = Converter /\ gltf # None /\ pc # "save_json"
    \/ script = Library /\ gltf # None /\ (json_data # None \/ exc = Some("IndexError"))

\* the index-valued fields are in the report as they are in the source
C14_RefsCopied ==
    /\ Pairwise(Doc.nodes, Report.nodes,
                LAMBDA src, out :
                    /\ \A f \in {"mesh", "camera", "skin"} : CopiedIff(src[f] # None, src, out, f)
                    /\ CopiedIff(NonEmptyList(src.children), src, out, "children"))
    /\ Pairwise(Doc.textures, Report.textures,
                LAMBDA src, out :
                    \A f \in {"source", "sampler"} : CopiedIff(src[f] # None, src, out, f))
    /\ Pairwise(Doc.scenes, Report.scenes,
                LAMBDA src, out :
                    out.nodes = IF NonEmptyList(src.nodes) THEN src.nodes ELSE Some(<<>>))
    /\ Pairwise(Doc.meshes, Report.meshes,
                LAMBDA src, out :
                    Pairwise(src.primitives, out.primitives[1],
                             LAMBDA p, q : CopiedIff(p.material # None, p, q, "material")))

\* C14 (as amended): a primitive's material, a node's mesh, camera, skin and
\* (non-empty) children, a texture's source and sampler and a scene's (non-empty)
\* nodes are copied to the report unchanged whether or not they index an existing
\* element, and none of them decides whether the conversion succeeds; the one
\* cross-reference the converter follows is the accessor index of a primitive's
\* POSITION, NORMAL, TEXCOORD_0, COLOR_0 and indices: the extraction of a loaded
\* document raises IndexError if and only if one of these selects no accessor.
C14_OnlyAccessorsFollowed ==
    /\ HasReport => C14_RefsCopied
    /\ Extracted => (json_data = None <=> DanglingAccessor(Doc))
    /\ Extracted /\ json_data = None => exc = Some("IndexError")

\* a report of a primitive whose material 9 does not exist
C14_Witness ==
    /\ HasReport /\ Doc.materials = <<>>
    /\ Doc.meshes # <<>> /\ Doc.meshes[1].primitives # <<>>
    /\ Doc.meshes[1].primitives[1].material = Some(9)
    /\ Report.meshes[1].primitives[1][1].material = Some(9)

\* C14 (as claimed): the index-valued fields are copied unchanged, and whether the
\* conversion of a loaded document succeeds does not depend on any cross-reference
\* being in range: no extraction fails because of one.
C14_AsClaimed ==
    /\ HasReport => C14_RefsCopied
    /\ Extracted /\ DanglingAccessor(Doc) => json_data # None

-----------------------------------------------------------------------------
(* Accessor lookups *)

\* an accessor index of a primitive is past the end of the document's accessors
PastTheEnd(doc) == \E a \in FollowedRefs(doc) : a >= Len(doc.accessors)
\* entry is what the report has for the reference ref to an accessor
C15_Entry(accessors, ref, entry) ==
    ref[1] \in 0..(Len(accessors) - 1)
        => /\ entry.accessor = ref
           /\ entry.count = accessors[ref[1] + 1].count
           /\ entry.type = accessors[ref[1] + 1].type
           /\ entry.componentType = accessors[ref[1] + 1].componentType

\* C15: if a primitive's POSITION, NORMAL, TEXCOORD_0, COLOR_0 or indices accessor
\* index is greater than or equal to the number of accessors of the loaded document
\* (none included), the extraction raises and returns no report; the converter's
\* command line then prints the traceback, exits with code 1, and neither opens
\* nor writes the output file.  In every report, the count, type and componentType
\* emitted for such an index within 0 .. n-1 are those of the accessor at exactly
\* that index.
C15_AccessorLookup ==
    /\ Extracted /\ PastTheEnd(Doc) => json_data = None /\ exc = Some("IndexError")
    /\ script = Converter /\ pc = "done" /\ gltf # None /\ PastTheEnd(Doc)
          => /\ exit_code = Some(1) /\ PrintedWith("Traceback", Some("IndexError"))
             /\ ~Called("open") /\ ~Called("mkdir")
             /\ disk.files[output_file[1]].kind # "json"
    /\ HasReport =>
          \A i \in 1..Len(Doc.meshes) : \A j \in 1..Len(Doc.meshes[i].primitives) :
              LET prim == Doc.meshes[i].primitives[j]
                  out == Report.meshes[i].primitives[1][j]
              IN  /\ \A a \in DOMAIN out.attributes[1] :
                        C15_Entry(Doc.accessors, prim.attributes[a], out.attributes[1][a][1])
                  /\ "indices" \in DOMAIN out
                        => C15_Entry(Doc.accessors, prim.indices, out.indices[1])

\* a run of the command line on a document with two accessors that ended on a
\* primitive's index past their end
C15_Witness ==
    /\ script = Converter /\ pc = "done" /\ gltf # None /\ PastTheEnd(Doc)
    /\ Len(Doc.accessors) = 2 /\ exit_code = Some(1)

-----------------------------------------------------------------------------
(* A converter that holds no document *)

Unloaded == script \in {Converter, Library} /\ gltf = None

C16_NothingHeld ==
    /\ Unloaded
          => /\ extract_metadata(gltf) = Empty
             /\ extract_scenes(gltf) = <<>> /\ extract_nodes(gltf) = <<>>
             /\ extract_meshes(gltf) = <<>> /\ ~extract_meshes_raises(gltf)
             /\ extract_materials(gltf) = <<>> /\ extract_textures(gltf) = <<>>
             /\ extract_images(gltf) = <<>> /\ extract_buffers(gltf) = <<>>
             /\ extract_accessors(gltf) = <<>>
             /\ convert_raises(gltf)
             /\ json_data = None
             /\ exc \in {None, Some("FileNotFoundError"), Some("JSONDecodeError"),
                         Some("AttributeError")}
    /\ script \in {Converter, Library} /\ json_data # None => gltf # None

\* C16: while load has not completed successfully on a GLTFConverter it holds no
\* document; then every extract_* method returns {} or [] without raising,
\* convert_to_json and save_json raise (AttributeError) and return no report, and
\* nothing is written, created or truncated on the file system; convert_to_json
\* returns a report only after a successful load.
C16_UnloadedConverter ==
    /\ []C16_NothingHeld
    /\ [][(script \in {Converter, Library}) /\ gltf' = None => disk' = disk]_vars
    /\ [][script = Library /\ gltf = None /\ include_accessors' # include_accessors
             => exc' = Some("AttributeError")]_vars

\* convert_to_json or save_json was called on a converter whose load had failed
\* or had not been called, and raised
C16_Witness ==
    /\ script = Library /\ gltf = None /\ exc = Some("AttributeError")
    /\ json_data = None

-----------------------------------------------------------------------------
(* The inspector's mesh summary *)

\* the mesh section was entered and the script is over
MeshesShown == script = Inspector /\ pc = "done" /\ data # None /\ Printed("MESHES FOUND")
PrimitivesOf(mesh) == IF "primitives" \in DOMAIN mesh THEN mesh.primitives ELSE Some(<<>>)
\* the places of the mesh list: <<i, 0>> is mesh i itself, <<i, j + 1>> its primitive j
Places(d) ==
    {<<i, 0>> : i \in 0..(Len(d.meshes) - 1)}
    \cup UNION {IF PrimitivesOf(d.meshes[i + 1]) = None THEN {}
                ELSE {<<i, j + 1>> : j \in 0..(Len(PrimitivesOf(d.meshes[i + 1])[1]) - 1)} :
                i \in 0..(Len(d.meshes) - 1)}
Before(a, b) == a[1] < b[1] \/ (a[1] = b[1] /\ a[2] < b[2])
PrimAt(d, a) == PrimitivesOf(d.meshes[a[1] + 1])[1][a[2]]
\* what goes wrong at a place, if anything
FaultAt(d, a) ==
    IF a[2] = 0
    THEN IF PrimitivesOf(d.meshes[a[1] + 1]) = None THEN Some("TypeError") ELSE None
    ELSE LET prim == PrimAt(d, a)
         IN  IF "material" \notin DOMAIN prim THEN None
             ELSE IF prim.material = None THEN Some("TypeError")
             ELSE IF /\ prim.material[1] >= 0 /\ "materials" \in DOMAIN d
                     /\ prim.material[1] >= Len(d.materials)
                  THEN Some("IndexError")
             ELSE None
\* the places the summary gets to: those with no fault at or before them
Reached(d, a) == \A b \in Places(d) : FaultAt(d, b) # None => Before(a, b)
\* the mesh a line of the output belongs to: the last mesh heading above it
MeshOf(k) ==
    LET above == {h \in Lines("mesh") : h < k}
    IN  stdout[CHOOSE h \in above : \A g \in above : g <= h].arg.i
PrimitiveLine(a, m) ==
    \E k \in Lines("Primitive") :
        /\ MeshOf(k) = a[1] /\ stdout[k].arg.j = a[2] - 1 /\ stdout[k].arg.material = m

\* C17 (as amended): in the mesh summary, for each primitive the summary gets
\* to, a "Primitive j: Material [m] name" line is printed if and only if the
\* primitive's material index m is a number >= 0, the document has a materials
\* collection and m is less than its length; the line names material m, or
\* Mat_<m> if it has no name.  A primitive with no material key, with a negative
\* index, or with any index when the document has no materials collection, is
\* skipped silently.  The summary stops with an uncaught error, exit code 1, at
\* the first primitive whose material is null (TypeError) or whose index is
\* >= the length of an existing materials collection (IndexError), or at the
\* first mesh whose primitives are null (TypeError); otherwise the script ends
\* with exit code 0.
C17_MeshSummary ==
    MeshesShown =>
        LET d == data[1]
            faults == {a \in Places(d) : FaultAt(d, a) # None}
        IN  /\ \A a \in {b \in Places(d) : b[2] > 0} :
                  /\ \A m \in -1..3 :
                        PrimitiveLine(a, m)
                            <=> /\ Reached(d, a)
                                /\ "material" \in DOMAIN PrimAt(d, a)
                                /\ PrimAt(d, a).material = Some(m)
                                /\ m >= 0 /\ "materials" \in DOMAIN d /\ m < Len(d.materials)
            /\ \A k \in Lines("Primitive") :
                  stdout[k].arg.name
                     = get(d.materials[stdout[k].arg.material + 1], "name",
                           Some(<<"M", "a", "t", "_", Digits[stdout[k].arg.material + 1]>>))
            /\ Cardinality(Lines("Primitive"))
                  = Cardinality({a \in Places(d) : a[2] > 0 /\ \E m \in -1..3 : PrimitiveLine(a, m)})
            /\ IF faults = {}
               THEN exit_code = Some(0) /\ ~Printed("Traceback")
               ELSE /\ exit_code = Some(1)
                    /\ \E a \in faults :
                          /\ \A b \in faults : a = b \/ Before(a, b)
                          /\ PrintedWith("Traceback", FaultAt(d, a))

\* a primitive was listed and the next one, with an index past the end of the
\* materials, ended the script
C17_Witness ==
    /\ MeshesShown /\ exit_code = Some(1)
    /\ "materials" \in DOMAIN data[1] /\ Len(data[1].materials) = 1
    /\ PrintedWith("Primitive", [j |-> 0, material |-> 0, name |-> Some(<<"G", "l", "a", "s", "s">>)])
    /\ PrintedWith("Traceback", Some("IndexError"))

\* C17 as the claim states it: no material index means skipped, and an index
\* >= the number of materials means an uncaught error
C17_AsClaimed ==
    MeshesShown =>
        \A a \in {b \in Places(data[1]) : b[2] > 0 /\ Reached(data[1], b)} :
            LET prim == PrimAt(data[1], a)
                count == IF "materials" \in DOMAIN data[1] THEN Len(data[1].materials) ELSE 0
            IN  "material" \in DOMAIN prim /\ prim.material # None /\ prim.material[1] >= count
                   => Printed("Traceback")

-----------------------------------------------------------------------------
(* The file the inspector reads *)

OnDisk(path) == disk.files[path] # Absent
\* the three candidates, in the order the claim gives them
Candidates == <<car_glb_json, car_gltf_json, gltf_file>>
FirstOnDisk ==
    LET there == {k \in DOMAIN Candidates : OnDisk(Candidates[k])}
    IN  IF there = {} THEN None
        ELSE Some(Candidates[CHOOSE k \in there : \A h \in there : k <= h])

\* C18: a run of the inspector opens at most one file; once it has looked for
\* its input, it has opened exactly one file if any of bmw.glb.json,
\* bmw.gltf.json and bmw.gltf exists, and that file is the first of the three,
\* in this order, that exists; if none exists it has opened nothing, has printed
\* "No gltf file found either" and nothing of the analysis, and has returned
\* with exit code 0.
C18_FilePriority ==
    script = Inspector =>
        /\ Cardinality(Calls("open")) <= 1
        /\ \A k \in DOMAIN trace : trace[k].op = "open"
        /\ data # None => Calls("open") # {}
        /\ pc \notin {"start", "chosen"} =>
              IF FirstOnDisk = None
              THEN /\ trace = <<>> /\ data = None
                   /\ pc = "done" /\ exit_code = Some(0)
                   /\ stdout = <<Msg("ERROR: No JSON file found", None),
                                 Msg("Checking gltf file directly", None),
                                 Msg("No gltf file found either", None)>>
              ELSE /\ trace = <<[op |-> "open", arg |-> FirstOnDisk]>>
                   /\ ~Printed("No gltf file found either")
                   /\ Printed("ERROR: No JSON file found")
                         <=> ~OnDisk(car_glb_json) /\ ~OnDisk(car_gltf_json)

\* bmw.gltf.json and bmw.gltf both exist, bmw.glb.json does not: the run read
\* bmw.gltf.json and analysed it
C18_Witness ==
    /\ script = Inspector /\ pc = "done" /\ data # None
    /\ ~OnDisk(car_glb_json) /\ OnDisk(car_gltf_json) /\ OnDisk(gltf_file)
    /\ trace = <<[op |-> "open", arg |-> Some(car_gltf_json)]>>

-----------------------------------------------------------------------------
(* Properties of the model bounds visualizer *)

\* the middle of the model on axis k, and the two-decimal texts it can print as
Midpoint(k) == (model_min_bounds[k] + model_max_bounds[k]) \div 2
OnMidpoint(text, k) == text \in format_f(Midpoint(k), 100000)
\* the axes on which a suggested position takes the center coordinate
CenteredAxes(name) ==
    IF name \in {"Front View", "Rear View"} THEN {1, 2}
    ELSE IF name \in {"Side View (Left)", "Side View (Right)"} THEN {2, 3}
    ELSE IF name = "Top View" THEN {1, 3}
    ELSE {}

\* C19: the center the visualizer prints is the midpoint of the bounds,
\* (min + max) / 2, on each of the axes x, y and z, and each of the Front, Side,
\* Top and Rear positions it prints lies on that midpoint on every axis on which
\* it uses a center coordinate.
C19_CenterIsMidpoint ==
    script = Visualizer /\ pc = "done" =>
        /\ \A i \in Lines("Center") : \A k \in 1..3 : OnMidpoint(stdout[i].arg[k], k)
        /\ \A i \in Lines("Position") :
              \A k \in CenteredAxes(stdout[i].arg.name) : OnMidpoint(stdout[i].arg.at[k], k)

=============================================================================
